---- MODULE Spec2Model ----
(***************************************************************************)
(* A model of the tan evaluator (src/src/eval.rs): the annotated           *)
(* expression type, the scoped environment and the recursive `eval`        *)
(* function with its special forms.  A state of the model is the           *)
(* environment that persists between top-level evaluations, together with  *)
(* a record of the last top-level evaluation (expression, result and the   *)
(* ordered log of what the evaluator did).                                  *)
(* The second part models the text pipeline in front of the evaluator: the  *)
(* lexer (src/src/lexer.rs) and the parser (src/src/parser.rs), with the    *)
(* input text, the result of lexing it and the result of parsing its        *)
(* tokens as the state.  The lexer is also run one iteration of its main    *)
(* loop at a time, and the parser also on tokens of the whole token set.    *)
(* The third part models the iteration of an expression                     *)
(* (src/src/expr/expr_iter.rs), with the iterator and the terms it has      *)
(* yielded as the state.                                                    *)
(***************************************************************************)
EXTENDS Integers, Sequences, FiniteSets, TLC

VARIABLES env, expr, env0, result, log

\* The text pipeline: an input text, the result of lexing it and the result
\* of parsing its tokens.
VARIABLES input, lexed, parsed

\* An iteration of the expression expr: the iterator and the terms it has
\* yielded so far.
VARIABLES iter, yielded

evalvars == <<env, expr, env0, result, log>>

itervars == <<iter, yielded>>

textvars == <<input, lexed, parsed>>

vars == <<env, expr, env0, result, log, input, lexed, parsed, iter, yielded>>

RECURSIVE eval(_, _, _)
RECURSIVE eval_args(_, _, _)
RECURSIVE bind_params(_, _, _)
RECURSIVE do_loop(_, _, _, _)
RECURSIVE for_loop(_, _, _, _, _)
RECURSIVE for_each_loop(_, _, _, _, _)
RECURSIVE let_loop(_, _, _)
RECURSIVE env_lookup(_, _, _)

(***************************************************************************)
(* Bounds of the model.                                                    *)
(***************************************************************************)
\* Top-level evaluations start only while the scope stack is at most this deep.
MaxDepth == 1
\* Bound on the nesting of eval calls and on the iterations of a `for` loop;
\* an evaluation that exhausts it is treated as one that does not return.
MaxFuel == 9

(***************************************************************************)
(* Expr: the tagged variants of the expression type.                        *)
(***************************************************************************)
ExprOne == [k |-> "One"]
ExprBool(b) == [k |-> "Bool", v |-> b]
ExprInt(n) == [k |-> "Int", v |-> n]
ExprFloat(n) == [k |-> "Float", v |-> n]
ExprChar(c) == [k |-> "Char", v |-> c]
ExprString(s) == [k |-> "String", v |-> s]
ExprSymbol(s) == [k |-> "Symbol", v |-> s]
ExprKeySymbol(s) == [k |-> "KeySymbol", v |-> s]
ExprList(xs) == [k |-> "List", v |-> xs]
ExprArray(xs) == [k |-> "Array", v |-> xs]
ExprDict(d) == [k |-> "Dict", v |-> d]
ExprIf(p, t, f) == [k |-> "If", p |-> p, t |-> t, f |-> f]
ExprFunc(params, body) == [k |-> "Func", params |-> params, body |-> body]
ExprMacro(params, body) == [k |-> "Macro", params |-> params, body |-> body]
ExprForeignFunc(f) == [k |-> "ForeignFunc", v |-> f]

(***************************************************************************)
(* Ann<Expr>: an expression with its optional annotation map.  The source   *)
(* range is kept in the map under the key "range".                          *)
(***************************************************************************)
EmptyMap == <<>>
NoRange == <<>>
Ann(e, a) == [e |-> e, ann |-> a]
\* Expr.into(): an expression without annotations.
Bare(e) == Ann(e, EmptyMap)
RangeExpr(s, t) == ExprArray(<<ExprInt(s), ExprInt(t)>>)
with_range(e, s, t) == Ann(e, [range |-> RangeExpr(s, t)])
set_annotation(x, key, val) == Ann(x.e, (key :> val) @@ x.ann)
has_annotation(x, key) == key \in DOMAIN x.ann
get_range(x) ==
    IF has_annotation(x, "range")
    THEN <<x.ann["range"].v[1].v, x.ann["range"].v[2].v>>
    ELSE NoRange

(***************************************************************************)
(* Reserved symbols.                                                        *)
(***************************************************************************)
ReservedSymbols ==
    {"do", "ann", "let", "if", "for", "for_each", "eval", "quot", "use",
     "Char", "Func", "Macro", "List", "Array", "Dict"}

\* A reserved-symbol test that forgets the last two entries.
is_reserved_symbol_short(sym) == sym \in ReservedSymbols \ {"Array", "Dict"}

is_reserved_symbol(sym) == sym \in ReservedSymbols

(***************************************************************************)
(* Env: a stack of scopes, the innermost last.                              *)
(***************************************************************************)
env_lookup(scopes, name, i) ==
    IF i = 0 THEN <<>>
    ELSE IF name \in DOMAIN scopes[i] THEN <<scopes[i][name]>>
    ELSE env_lookup(scopes, name, i - 1)

\* Env::get: the innermost binding of name, as a sequence of zero or one value.
env_get(scopes, name) == env_lookup(scopes, name, Len(scopes))

env_insert(scopes, name, val) ==
    [scopes EXCEPT ![Len(scopes)] = (name :> val) @@ @]

env_push_new_scope(scopes) == Append(scopes, EmptyMap)

env_pop(scopes) == SubSeq(scopes, 1, Len(scopes) - 1)

(***************************************************************************)
(* The evaluator threads a pair st = [env, log] through every step and      *)
(* returns [st, res]; res is Ok with a value, Err with a ranged error,      *)
(* Panic (the process aborts) or Diverge (the call does not return).        *)
(* The log records, in order, every eval call, scope push and pop, env      *)
(* insert, foreign call and raised error.                                   *)
(***************************************************************************)
Ret(st, res) == [st |-> st, res |-> res]
Ok(st, val) == Ret(st, [tag |-> "Ok", val |-> val])
Logged(st, ev) == [st EXCEPT !.log = Append(@, ev)]
Ranged(kind, arg, range) == [kind |-> kind, arg |-> arg, range |-> range]
Raise(st, kind, arg, range) ==
    Ret(Logged(st, [op |-> "raise", err |-> Ranged(kind, arg, range)]),
        [tag |-> "Err", err |-> Ranged(kind, arg, range)])
Panic(st) == Ret(st, [tag |-> "Panic"])
Diverge(st) == Ret(st, [tag |-> "Diverge"])
IsOk(r) == r.res.tag = "Ok"
\* The call has returned to its caller, with a value or with an error.
Returned(r) == r.res.tag \in {"Ok", "Err"}

Push(st) ==
    [env |-> env_push_new_scope(st.env),
     log |-> Append(st.log, [op |-> "push", d |-> Len(st.env) + 1])]
\* env.pop() by the form whose env.push_new_scope() is the event pushed of
\* the log.
Pop(st, pushed) ==
    [env |-> env_pop(st.env),
     log |-> Append(st.log, [op |-> "pop", d |-> Len(st.env) - 1, of |-> pushed])]
Insert(st, name, val) ==
    [env |-> env_insert(st.env, name, val),
     log |-> Append(st.log, [op |-> "insert", name |-> name, val |-> val,
                             d |-> Len(st.env)])]

(***************************************************************************)
(* Foreign functions of the prelude.                                        *)
(***************************************************************************)
AllInt(args) == \A i \in 1..Len(args) : args[i].e.k = "Int"
SumInt(args) ==
    LET RECURSIVE sum(_)
        sum(i) == IF i = 0 THEN 0 ELSE args[i].e.v + sum(i - 1)
    IN sum(Len(args))

\* The host function named f applied to the evaluated arguments.
foreign_function(f, args, st) ==
    LET s1 == Logged(st, [op |-> "call", f |-> f, args |-> args, d |-> Len(st.env)])
    IN CASE f = "add_int" ->
              IF AllInt(args) THEN Ok(s1, Bare(ExprInt(SumInt(args))))
              ELSE Raise(s1, "InvalidArguments", <<"not an Int">>, NoRange)
         [] OTHER -> Ok(s1, Bare(ExprOne))

setup_prelude ==
    ("+" :> Ann(ExprForeignFunc("add_int"), [type |-> ExprSymbol("Int")]))
    @@ ("write" :> Bare(ExprForeignFunc("write")))

\* The canonical text of a value, used for Dict keys.
format_value(e) ==
    CASE e.k \in {"String", "Symbol"} -> e.v
      [] e.k = "KeySymbol" -> e.v
      [] e.k = "Int" /\ e.v = 1 -> "1"
      [] e.k = "Int" /\ e.v = 2 -> "2"
      [] OTHER -> "?"

\* The number of characters of the strings the model uses.
StringLen(s) == IF s = "" THEN 0 ELSE IF s \in {"c", "s", "a", "b"} THEN 1 ELSE 2

(***************************************************************************)
(* eval: Symbol                                                             *)
(***************************************************************************)
\* A symbol evaluation that ignores the method annotation.
eval_symbol_no_method(x, st) ==
    LET sym == x.e.v
    IN IF is_reserved_symbol(sym) THEN Ok(st, x)
       ELSE IF env_get(st.env, sym) # <<>>
       THEN Ok(st, env_get(st.env, sym)[1])
       ELSE Raise(st, "UndefinedSymbol", <<sym>>, get_range(x))

eval_symbol(x, st) ==
    LET sym == x.e.v
    IN IF is_reserved_symbol(sym) THEN Ok(st, x)
       ELSE IF has_annotation(x, "method") /\ x.ann["method"].k = "Symbol"
       THEN LET method == x.ann["method"].v
            IN IF env_get(st.env, method) # <<>>
               THEN Ok(st, env_get(st.env, method)[1])
               ELSE IF env_get(st.env, sym) # <<>>
               THEN Ok(st, env_get(st.env, sym)[1])
               ELSE Raise(st, "UndefinedFunction", <<sym, method>>, get_range(x))
       ELSE IF env_get(st.env, sym) # <<>>
       THEN Ok(st, env_get(st.env, sym)[1])
       ELSE Raise(st, "UndefinedSymbol", <<sym>>, get_range(x))

(***************************************************************************)
(* eval: the pre-lowered If                                                 *)
(***************************************************************************)
eval_if(x, st, fuel) ==
    LET p == eval(x.e.p, st, fuel)
    IN IF ~IsOk(p) THEN p
       ELSE IF p.res.val.e.k # "Bool"
       THEN Raise(p.st, "InvalidArguments", <<"the if predicate is not a boolean value">>,
                  get_range(p.res.val))
       ELSE IF p.res.val.e.v THEN eval(x.e.t, p.st, fuel)
       ELSE IF x.e.f # <<>> THEN eval(x.e.f[1], p.st, fuel)
       ELSE Ok(p.st, Bare(ExprOne))

(***************************************************************************)
(* eval_args: the arguments in order, stopping at the first error.          *)
(***************************************************************************)
\* An argument evaluation that evaluates every argument and then reports the
\* first error.
eval_args_all(args, st, fuel) ==
    IF args = <<>> THEN Ok(st, <<>>)
    ELSE LET r == eval(Head(args), st, fuel)
             rest == eval_args(Tail(args), r.st, fuel)
         IN IF ~IsOk(r) THEN Ret(rest.st, r.res)
            ELSE IF ~IsOk(rest) THEN rest
            ELSE Ok(rest.st, <<r.res.val>> \o rest.res.val)

eval_args(args, st, fuel) ==
    IF args = <<>> THEN Ok(st, <<>>)
    ELSE LET r == eval(Head(args), st, fuel)
         IN IF ~IsOk(r) THEN r
            ELSE LET rest == eval_args(Tail(args), r.st, fuel)
                 IN IF ~IsOk(rest) THEN rest
                    ELSE Ok(rest.st, <<r.res.val>> \o rest.res.val)

(***************************************************************************)
(* Application of a Func value.                                             *)
(***************************************************************************)
\* for (param, arg) in params.iter().zip(args)
bind_params(params, args, st) ==
    IF params = <<>> \/ args = <<>> THEN Ok(st, Bare(ExprOne))
    ELSE IF Head(params).e.k # "Symbol"
    THEN Raise(st, "InvalidArguments", <<"parameter is not a symbol">>,
               get_range(Head(params)))
    ELSE bind_params(Tail(params), Tail(args),
                     Insert(st, Head(params).e.v, Head(args)))

apply_func(head, tail, st, fuel) ==
    LET a == eval_args(tail, st, fuel)
    IN IF ~IsOk(a) THEN a
       ELSE LET b == bind_params(head.e.params, a.res.val, Push(a.st))
            IN IF ~IsOk(b) THEN b
               ELSE LET r == eval(head.e.body, b.st, fuel)
                    IN IF Returned(r) THEN Ret(Pop(r.st, Len(a.st.log) + 1), r.res) ELSE r

(***************************************************************************)
(* Application of a ForeignFunc value.                                      *)
(***************************************************************************)
\* A foreign application that passes the arguments on unevaluated.
apply_foreign_unevaluated(head, tail, st, fuel) ==
    foreign_function(head.e.v, tail, st)

apply_foreign(head, tail, st, fuel) ==
    LET a == eval_args(tail, st, fuel)
    IN IF ~IsOk(a) THEN a
       ELSE foreign_function(head.e.v, a.res.val, a.st)

(***************************************************************************)
(* Indexing of an Array or a Dict value.                                    *)
(***************************************************************************)
\* An indexing that counts a negative index from the end of the array.
index_array_from_end(head, tail, st, fuel) ==
    LET a == eval_args(tail, st, fuel)
    IN IF ~IsOk(a) THEN a
       ELSE IF a.res.val = <<>> THEN Panic(a.st)
       ELSE LET index == a.res.val[1]
            IN IF index.e.k # "Int"
               THEN Raise(a.st, "InvalidArguments", <<"invalid array index, expecting Int">>,
                          get_range(index))
               ELSE IF index.e.v >= 0 /\ index.e.v < Len(head.e.v)
               THEN Ok(a.st, Bare(head.e.v[index.e.v + 1]))
               ELSE IF index.e.v < 0 /\ -index.e.v <= Len(head.e.v)
               THEN Ok(a.st, Bare(head.e.v[Len(head.e.v) + index.e.v + 1]))
               ELSE Ok(a.st, Bare(ExprOne))

index_array(head, tail, st, fuel) ==
    LET a == eval_args(tail, st, fuel)
    IN IF ~IsOk(a) THEN a
       ELSE IF a.res.val = <<>> THEN Panic(a.st)
       ELSE LET index == a.res.val[1]
            IN IF index.e.k # "Int"
               THEN Raise(a.st, "InvalidArguments", <<"invalid array index, expecting Int">>,
                          get_range(index))
               ELSE IF index.e.v >= 0 /\ index.e.v < Len(head.e.v)
               THEN Ok(a.st, Bare(head.e.v[index.e.v + 1]))
               ELSE Ok(a.st, Bare(ExprOne))

index_dict(head, tail, st, fuel) ==
    LET a == eval_args(tail, st, fuel)
    IN IF ~IsOk(a) THEN a
       ELSE IF a.res.val = <<>> THEN Panic(a.st)
       ELSE LET key == format_value(a.res.val[1].e)
            IN IF key \in DOMAIN head.e.v
               THEN Ok(a.st, Bare(head.e.v[key]))
               ELSE Ok(a.st, Bare(ExprOne))

(***************************************************************************)
(* Special forms: the head of the list evaluated to a Symbol.               *)
(***************************************************************************)
do_loop(tail, value, st, fuel) ==
    IF tail = <<>> THEN Ok(st, value)
    ELSE LET r == eval(Head(tail), st, fuel)
         IN IF ~IsOk(r) THEN r
            ELSE do_loop(Tail(tail), r.res.val, r.st, fuel)

eval_do(tail, st, fuel) ==
    LET r == do_loop(tail, Bare(ExprOne), Push(st), fuel)
    IN IF ~IsOk(r) THEN r
       ELSE Ret(Pop(r.st, Len(st.log) + 1), r.res)

eval_ann(x, tail, st) ==
    IF Len(tail) # 1
    THEN Raise(st, "InvalidArguments", <<"ann requires one argument">>, get_range(x))
    ELSE Ok(st, Bare(ExprDict(tail[1].ann)))

\* An `eval` form that returns its evaluated argument without evaluating it again.
eval_eval_once(x, tail, st, fuel) ==
    IF Len(tail) # 1
    THEN Raise(st, "InvalidArguments", <<"missing expression to be evaluated">>,
               get_range(x))
    ELSE eval(tail[1], st, fuel)

eval_eval(x, tail, st, fuel) ==
    IF Len(tail) # 1
    THEN Raise(st, "InvalidArguments", <<"missing expression to be evaluated">>,
               get_range(x))
    ELSE LET r == eval(tail[1], st, fuel)
         IN IF ~IsOk(r) THEN r
            ELSE eval(r.res.val, r.st, fuel)

eval_quot(x, tail, st) ==
    IF Len(tail) # 1
    THEN Raise(st, "InvalidArguments", <<"missing quote target">>, get_range(x))
    ELSE Ok(st, Bare(tail[1].e))

\* A loop that returns the value of the first body evaluation.
for_loop_first(predicate, body, value, st, fuel) ==
    IF fuel = 0 THEN Diverge(st)
    ELSE LET p == eval(predicate, st, fuel)
         IN IF ~IsOk(p) THEN p
            ELSE IF p.res.val.e.k # "Bool"
            THEN Raise(p.st, "InvalidArguments",
                       <<"the for predicate is not a boolean value">>,
                       get_range(p.res.val))
            ELSE IF ~p.res.val.e.v THEN Ok(p.st, value)
            ELSE LET b == eval(body, p.st, fuel)
                 IN IF ~IsOk(b) THEN b
                    ELSE LET r == for_loop(predicate, body, b.res.val, b.st, fuel - 1)
                         IN IF IsOk(r) THEN Ok(r.st, b.res.val) ELSE r

for_loop(predicate, body, value, st, fuel) ==
    IF fuel = 0 THEN Diverge(st)
    ELSE LET p == eval(predicate, st, fuel)
         IN IF ~IsOk(p) THEN p
            ELSE IF p.res.val.e.k # "Bool"
            THEN Raise(p.st, "InvalidArguments",
                       <<"the for predicate is not a boolean value">>,
                       get_range(p.res.val))
            ELSE IF ~p.res.val.e.v THEN Ok(p.st, value)
            ELSE LET b == eval(body, p.st, fuel)
                 IN IF ~IsOk(b) THEN b
                    ELSE for_loop(predicate, body, b.res.val, b.st, fuel - 1)

eval_for(x, tail, st, fuel) ==
    IF Len(tail) # 2
    THEN Raise(st, "InvalidArguments", <<"missing for arguments">>, get_range(x))
    ELSE for_loop(tail[1], tail[2], Bare(ExprOne), st, fuel)

\* An if form that evaluates the false clause whatever the predicate is.
eval_if_form_else(x, tail, st, fuel) ==
    IF Len(tail) < 1
    THEN Raise(st, "InvalidArguments", <<"malformed if predicate">>, get_range(x))
    ELSE IF Len(tail) < 2
    THEN Raise(st, "InvalidArguments", <<"malformed if true clause">>, get_range(x))
    ELSE LET p == eval(tail[1], st, fuel)
         IN IF ~IsOk(p) THEN p
            ELSE IF p.res.val.e.k # "Bool"
            THEN Raise(p.st, "InvalidArguments",
                       <<"the if predicate is not a boolean value">>,
                       get_range(p.res.val))
            ELSE IF Len(tail) >= 3 THEN eval(tail[3], p.st, fuel)
            ELSE eval(tail[2], p.st, fuel)

eval_if_form(x, tail, st, fuel) ==
    IF Len(tail) < 1
    THEN Raise(st, "InvalidArguments", <<"malformed if predicate">>, get_range(x))
    ELSE IF Len(tail) < 2
    THEN Raise(st, "InvalidArguments", <<"malformed if true clause">>, get_range(x))
    ELSE LET p == eval(tail[1], st, fuel)
         IN IF ~IsOk(p) THEN p
            ELSE IF p.res.val.e.k # "Bool"
            THEN Raise(p.st, "InvalidArguments",
                       <<"the if predicate is not a boolean value">>,
                       get_range(p.res.val))
            ELSE IF p.res.val.e.v THEN eval(tail[2], p.st, fuel)
            ELSE IF Len(tail) >= 3 THEN eval(tail[3], p.st, fuel)
            ELSE Ok(p.st, Bare(ExprOne))

\* for x in arr { env.insert(sym, x); eval(body, env)?; }
for_each_loop(arr, sym, body, st, fuel) ==
    IF arr = <<>> THEN Ok(st, Bare(ExprOne))
    ELSE LET s1 == Logged(st, [op |-> "iter", scope |-> st.env[Len(st.env)],
                               d |-> Len(st.env)])
             b == eval(body, Insert(s1, sym, Bare(Head(arr))), fuel)
         IN IF ~IsOk(b) THEN b
            ELSE for_each_loop(Tail(arr), sym, body, b.st, fuel)

eval_for_each(x, tail, st, fuel) ==
    IF Len(tail) # 3
    THEN Raise(st, "InvalidArguments", <<"malformed for_each">>, get_range(x))
    ELSE LET seq == eval(tail[1], st, fuel)
             var == tail[2]
         IN IF ~IsOk(seq) THEN seq
            ELSE IF seq.res.val.e.k # "Array"
            THEN Raise(seq.st, "InvalidArguments",
                       <<"for_each requires a Seq as the first argument">>,
                       get_range(seq.res.val))
            ELSE IF var.e.k # "Symbol"
            THEN Raise(seq.st, "InvalidArguments",
                       <<"for_each requires a symbol as the second argument">>,
                       get_range(var))
            ELSE LET r == for_each_loop(seq.res.val.e.v, var.e.v, tail[3],
                                        Push(seq.st), fuel)
                 IN IF ~IsOk(r) THEN r
                    ELSE Ret(Pop(r.st, Len(seq.st.log) + 1), r.res)

\* The file system of the model holds no directory: read_dir fails.
eval_use(x, tail, st) ==
    IF Len(tail) < 1 \/ tail[1].e.k # "Symbol"
    THEN Raise(st, "InvalidArguments", <<"malformed use expression">>, get_range(x))
    ELSE Raise(st, "Io", <<tail[1].e.v>>, NoRange)

let_loop(args, st, fuel) ==
    IF Len(args) < 2 THEN Ok(st, Bare(ExprOne))
    ELSE LET sym == args[1]
             value == args[2]
         IN IF sym.e.k # "Symbol"
            THEN Raise(st, "InvalidArguments", <<"is not a Symbol">>, get_range(sym))
            ELSE IF is_reserved_symbol(sym.e.v)
            THEN Raise(st, "InvalidArguments",
                       <<"let cannot shadow the reserved symbol", sym.e.v>>,
                       get_range(sym))
            ELSE LET v == eval(value, st, fuel)
                 IN IF ~IsOk(v) THEN v
                    ELSE let_loop(Tail(Tail(args)), Insert(v.st, sym.e.v, v.res.val),
                                  fuel)

eval_let(tail, st, fuel) == let_loop(tail, st, fuel)

eval_char(x, tail, st) ==
    IF Len(tail) < 1 \/ tail[1].e.k # "String"
    THEN Raise(st, "InvalidArguments", <<"malformed Char constructor">>, get_range(x))
    ELSE IF StringLen(tail[1].e.v) # 1
    THEN Raise(st, "InvalidArguments",
               <<"the Char constructor requires a single-char string">>, get_range(x))
    ELSE Ok(st, Bare(ExprChar(tail[1].e.v)))

eval_list_ctor(tail, st, fuel) ==
    LET a == eval_args(tail, st, fuel)
    IN IF ~IsOk(a) THEN a
       ELSE Ok(a.st, Bare(ExprList(a.res.val)))

eval_func_def(x, tail, st) ==
    IF Len(tail) # 2
    THEN Raise(st, "InvalidArguments", <<"malformed func definition">>, get_range(x))
    ELSE IF tail[1].e.k # "List"
    THEN Raise(st, "InvalidArguments", <<"malformed func parameters definition">>,
               get_range(tail[1]))
    ELSE Ok(st, Bare(ExprFunc(tail[1].e.v, tail[2])))

eval_macro_def(x, tail, st) ==
    IF Len(tail) # 2
    THEN Raise(st, "InvalidArguments", <<"malformed macro definition">>, get_range(x))
    ELSE IF tail[1].e.k # "List"
    THEN Raise(st, "InvalidArguments", <<"malformed macro parameters definition">>,
               get_range(tail[1]))
    ELSE Ok(st, Bare(ExprMacro(tail[1].e.v, tail[2])))

eval_special(x, head, tail, st, fuel) ==
    CASE head.e.v = "do" -> eval_do(tail, st, fuel)
      [] head.e.v = "ann" -> eval_ann(x, tail, st)
      [] head.e.v = "eval" -> eval_eval(x, tail, st, fuel)
      [] head.e.v = "quot" -> eval_quot(x, tail, st)
      [] head.e.v = "for" -> eval_for(x, tail, st, fuel)
      [] head.e.v = "if" -> eval_if_form(x, tail, st, fuel)
      [] head.e.v = "for_each" -> eval_for_each(x, tail, st, fuel)
      [] head.e.v = "use" -> eval_use(x, tail, st)
      [] head.e.v = "let" -> eval_let(tail, st, fuel)
      [] head.e.v = "Char" -> eval_char(x, tail, st)
      [] head.e.v = "List" -> eval_list_ctor(tail, st, fuel)
      [] head.e.v = "Func" -> eval_func_def(x, tail, st)
      [] head.e.v = "Macro" -> eval_macro_def(x, tail, st)
      [] OTHER -> Raise(st, "NotInvocable", <<"symbol", head.e.v>>, get_range(head))

(***************************************************************************)
(* eval: List                                                               *)
(***************************************************************************)
eval_list(x, st, fuel) ==
    IF x.e.v = <<>> THEN Ok(st, Bare(ExprOne))
    ELSE LET h == eval(Head(x.e.v), st, fuel)
             tail == Tail(x.e.v)
         IN IF ~IsOk(h) THEN h
            ELSE CASE h.res.val.e.k = "Func" -> apply_func(h.res.val, tail, h.st, fuel)
                   [] h.res.val.e.k = "ForeignFunc" ->
                          apply_foreign(h.res.val, tail, h.st, fuel)
                   [] h.res.val.e.k = "Array" -> index_array(h.res.val, tail, h.st, fuel)
                   [] h.res.val.e.k = "Dict" -> index_dict(h.res.val, tail, h.st, fuel)
                   [] h.res.val.e.k = "Symbol" ->
                          eval_special(x, h.res.val, tail, h.st, fuel)
                   [] OTHER -> Raise(h.st, "NotInvocable", <<"expression">>,
                                     get_range(h.res.val))

(***************************************************************************)
(* eval                                                                     *)
(***************************************************************************)
\* A self-evaluation that returns the expression without its annotations.
eval_self_bare(x, st) == Ok(st, Bare(x.e))

\* Unhandled expression variants evaluate to themselves.
eval_self(x, st) == Ok(st, x)

\* A keyword symbol evaluates to itself.
eval_key_symbol(x, st) == Ok(st, x)

eval(x, st, fuel) ==
    IF fuel = 0 THEN Diverge(st)
    ELSE LET s1 == Logged(st, [op |-> "eval", x |-> x, d |-> Len(st.env)])
         IN CASE x.e.k = "Symbol" -> eval_symbol(x, s1)
              [] x.e.k = "KeySymbol" -> eval_key_symbol(x, s1)
              [] x.e.k = "If" -> eval_if(x, s1, fuel - 1)
              [] x.e.k = "List" -> eval_list(x, s1, fuel - 1)
              [] OTHER -> eval_self(x, s1)

(***************************************************************************)
(* Programs.  Every node carries the range the parser gives it; p is the    *)
(* offset of the node in the source text.                                   *)
(***************************************************************************)
Sym(s, p) == with_range(ExprSymbol(s), p, p + 1)
Lst(xs, p, q) == with_range(ExprList(xs), p, q)

AtomKinds == {"1", "2", "true", "false", "str", "a", "y", "x", "zz"}

\* The atom written c at offset p.
Atom(c, p) ==
    CASE c = "1" -> with_range(ExprInt(1), p, p + 1)
      [] c = "2" -> with_range(ExprInt(2), p, p + 1)
      [] c = "true" -> with_range(ExprBool(TRUE), p, p + 1)
      [] c = "false" -> with_range(ExprBool(FALSE), p, p + 1)
      [] c = "str" -> with_range(ExprString("s"), p, p + 1)
      [] OTHER -> Sym(c, p)

\* (let name c) at offset p.
LetAt(name, c, p) == Lst(<<Sym("let", p + 1), Sym(name, p + 2), Atom(c, p + 3)>>, p, p + 5)

\* (f c) at offset p.
CallAt(f, c, p) == Lst(<<Sym(f, p + 1), Atom(c, p + 2)>>, p, p + 4)

ElemKinds == {"let_y", "let_a", "write", "1", "a", "y", "zz"}

\* A list element: an atom, a `let` or a foreign call.
Elem(c, p) ==
    CASE c = "let_y" -> LetAt("y", "1", p)
      [] c = "let_a" -> LetAt("a", "2", p)
      [] c = "write" -> CallAt("write", "1", p)
      [] OTHER -> Atom(c, p)

\* The elements written cs[1], cs[2], ... from offset p on, ten apart.
Elems(cs, p) == [i \in 1..Len(cs) |-> Elem(cs[i], p + 10 * i)]

\* (head cs[1] cs[2] ...)
Form(head, cs) == Lst(<<head>> \o Elems(cs, 0), 0, 10 * Len(cs) + 20)

\* The sequences over S of length lo..hi.
SeqsOf(S, lo, hi) == UNION {[1..n -> S] : n \in lo..hi}

(***************************************************************************)
(* The state machine: env persists between top-level evaluations.           *)
(***************************************************************************)
NoResult == [tag |-> "None"]

\* No text has been lexed or parsed.
NoText == [tag |-> "None"]

\* No iterator has been made.
NoIter == [tag |-> "None"]

Init ==
    /\ env = <<setup_prelude>>
    /\ expr = Bare(ExprOne)
    /\ env0 = <<setup_prelude>>
    /\ result = NoResult
    /\ log = <<>>
    /\ input = <<>>
    /\ lexed = NoText
    /\ parsed = NoText
    /\ iter = NoIter
    /\ yielded = <<>>

\* One top-level call eval(x, env) that returns.
Evaluate(x) ==
    /\ result = NoResult
    /\ Len(env) <= MaxDepth
    /\ LET r == eval(x, [env |-> env, log |-> <<>>], MaxFuel)
       IN /\ r.res.tag # "Diverge"
          /\ env' = r.st.env
          /\ result' = r.res
          /\ log' = r.st.log
    /\ expr' = x
    /\ env0' = env
    /\ UNCHANGED textvars
    /\ UNCHANGED itervars

Literals ==
    {ExprOne, ExprBool(TRUE), ExprInt(1), ExprFloat(15), ExprChar("c"),
     ExprString("s"), ExprKeySymbol("k"),
     ExprArray(<<ExprInt(1), ExprInt(2)>>), ExprDict([a |-> ExprInt(1)])}

\* No annotation, the range alone, and the range with `#Int #deprecated`.
Annotations ==
    {EmptyMap,
     [range |-> RangeExpr(0, 1)],
     [range |-> RangeExpr(0, 1), type |-> ExprSymbol("Int"), deprecated |-> ExprBool(TRUE)]}

LiteralPrograms == {Ann(e, a) : e \in Literals, a \in Annotations}

\* Symbols, bare and with the annotation `#(method g)` as the parser stores it.
SymbolPrograms ==
    {Sym(s, 0) : s \in {"a", "y", "zz", "write", "do", "Array"}}
    \cup {set_annotation(Sym(s, 0), "method",
                         ExprList(<<Sym("method", 2), Sym("write", 9)>>)) : s \in {"a", "zz"}}

LetNames == {"a"}

\* (let s c): s a reserved symbol or a name.
LetPrograms ==
    {Form(Sym("let", 1), <<s, c>>) :
        s \in ReservedSymbols, c \in {"1", "2", "zz", "let_a", "write"}}
    \cup {Form(Sym("let", 1), <<s, c>>) : s \in LetNames, c \in {"1", "zz"}}

\* (let a c1 y c2)
LetPairPrograms ==
    {Form(Sym("let", 1), <<"a", c1, "y", c2>>) : c1 \in {"1", "zz"}, c2 \in {"1", "zz"}}

\* (do e1 e2 ...)
DoPrograms == {Form(Sym("do", 1), cs) : cs \in SeqsOf(ElemKinds, 0, 2)}

ParamLists == {<<>>, <<"x">>, <<"x", "y">>, <<"1">>, <<"x", "1">>}

\* (Func (params) body) at offset p.
FuncDef(params, body, p) ==
    Lst(<<Sym("Func", p + 1),
          Lst([i \in 1..Len(params) |-> Atom(params[i], p + 2 + i)], p + 2, p + 6),
          Elem(body, p + 7)>>, p, p + 9)

\* ((Func (params) body) c1 c2 ...)
ApplyPrograms ==
    {Form(FuncDef(ps, body, 1), cs) :
        ps \in ParamLists, body \in {"x", "y", "zz", "let_y"},
        cs \in SeqsOf({"1", "a", "zz"}, 0, 2)}

\* (+ c1 c2 ...) and (write c1 c2 ...)
ForeignPrograms ==
    {Form(Sym(f, 1), cs) :
        f \in {"+", "write"}, cs \in SeqsOf({"1", "a", "zz", "str", "write"}, 0, 2)}

\* The sequence written c at offset p: an array literal or an atom.
SeqAt(c, p) ==
    CASE c = "arr2" -> with_range(ExprArray(<<ExprBool(TRUE), ExprBool(FALSE)>>), p, p + 5)
      [] c = "arr0" -> with_range(ExprArray(<<>>), p, p + 2)
      [] OTHER -> Atom(c, p)

\* The loop body written c at offset p; "ifx" is (if x (let y 2) y).
BodyAt(c, p) ==
    CASE c = "ifx" -> Lst(<<Sym("if", p + 1), Sym("x", p + 2), LetAt("y", "2", p + 3),
                           Sym("y", p + 8)>>, p, p + 9)
      [] OTHER -> Elem(c, p)

\* (for_each seq var body)
ForEachPrograms ==
    {Lst(<<Sym("for_each", 1), SeqAt(sq, 10), Atom(var, 20), BodyAt(body, 30)>>, 0, 40) :
        sq \in {"arr2", "arr0", "1", "zz"}, var \in {"x", "1"},
        body \in {"x", "ifx", "zz", "let_y", "y"}}

\* (h): a special form without its arguments.
MalformedPrograms ==
    {Form(Sym(h, 1), <<>>) :
        h \in {"eval", "quot", "ann", "for", "if", "for_each", "Func", "Macro", "Char", "use"}}

\* (do (let f (Func (x) free)) (do (let free c) (f 1)))
ClosureProgram(free, c) ==
    Lst(<<Sym("do", 1),
          Lst(<<Sym("let", 11), Sym("f", 12),
                Lst(<<Sym("Func", 14), Lst(<<Sym("x", 16)>>, 15, 17), Sym(free, 18)>>,
                    13, 19)>>, 10, 20),
          Lst(<<Sym("do", 31), LetAt(free, c, 40),
                Lst(<<Sym("f", 51), Atom("1", 52)>>, 50, 54)>>, 30, 60)>>,
        0, 61)

ClosurePrograms == {ClosureProgram(free, c) : free \in {"y", "a"}, c \in {"1", "2"}}

\* (if p t f), the pre-lowered If(p, t, f), and (for p body).
CondPrograms ==
    {Lst(<<Sym("if", 1), Atom(c, 10), Atom(t, 20), Atom(f, 30)>>, 0, 40) :
        c \in {"true", "false", "zz", "1"}, t \in {"1", "zz"}, f \in {"2", "zz"}}
    \cup {with_range(ExprIf(Atom(c, 10), Atom(t, 20), <<Atom(f, 30)>>), 0, 40) :
        c \in {"true", "false", "zz", "1"}, t \in {"1", "zz"}, f \in {"2", "zz"}}
    \cup {Lst(<<Sym("for", 1), Atom(c, 10), Atom(b, 20)>>, 0, 30) :
        c \in {"false", "zz", "1"}, b \in {"1", "zz"}}
    \cup {Lst(<<Sym("for", 1), Atom("true", 10), Atom("zz", 20)>>, 0, 30)}


\* (if p t) and the pre-lowered If(p, t) without a false clause.
IfNoElsePrograms ==
    {Lst(<<Sym("if", 1), Atom(c, 10), Elem(t, 20)>>, 0, 40) :
        c \in {"true", "false", "zz", "1"}, t \in {"1", "zz", "let_a"}}
    \cup {with_range(ExprIf(Atom(c, 10), Elem(t, 20), <<>>), 0, 40) :
        c \in {"true", "false", "zz", "1"}, t \in {"1", "zz", "let_a"}}


\* The body of a loop over the flags b and c, written c at offset p:
\* "flip" is (if c (let c false) (let b false)), "list" is (List c flip),
\* "let_b1" is (let b 1).
LoopBodyAt(c, p) ==
    CASE c = "flip" ->
             Lst(<<Sym("if", p + 1), Sym("c", p + 2), LetAt("c", "false", p + 3),
                   LetAt("b", "false", p + 8)>>, p, p + 14)
      [] c = "list" ->
             Lst(<<Sym("List", p + 1),
                   Sym("c", p + 2),
                   Lst(<<Sym("if", p + 4), Sym("c", p + 5), LetAt("c", "false", p + 6),
                         LetAt("b", "false", p + 11)>>, p + 3, p + 17)>>, p, p + 19)
      [] c = "let_b1" -> LetAt("b", "1", p)
      [] OTHER -> Atom(c, p)

\* (do (let b B) (let c C) (for b body))
ForPrograms ==
    {Lst(<<Sym("do", 1), LetAt("b", B, 10), LetAt("c", C, 20),
           Lst(<<Sym("for", 31), Sym("b", 32), LoopBodyAt(body, 40)>>, 30, 60)>>, 0, 61) :
        B \in {"true", "false", "1"}, C \in {"true", "false"},
        body \in {"flip", "list", "let_b1", "zz"}}


\* The index written c at offset p.
IndexAt(c, p) ==
    CASE c = "0" -> with_range(ExprInt(0), p, p + 1)
      [] c = "-1" -> with_range(ExprInt(-1), p, p + 2)
      [] c = "-2" -> with_range(ExprInt(-2), p, p + 2)
      [] OTHER -> Atom(c, p)

IndexKinds == {"0", "1", "2", "-1", "-2", "str", "true", "zz", "a"}

\* ([true 2] i), ([true 2] i j), ([] i) and ([true 2]).
ArrayIndexPrograms ==
    {Lst(<<with_range(ExprArray(arr), 1, 9), IndexAt(c, 10)>>, 0, 20) :
        arr \in {<<ExprBool(TRUE), ExprInt(2)>>, <<>>}, c \in IndexKinds}
    \cup {Lst(<<with_range(ExprArray(<<ExprBool(TRUE), ExprInt(2)>>), 1, 9), IndexAt(c, 10),
                Atom(d, 14)>>, 0, 20) : c \in {"0", "2", "str"}, d \in {"1", "zz"}}
    \cup {Lst(<<with_range(ExprArray(<<ExprBool(TRUE), ExprInt(2)>>), 1, 9)>>, 0, 20)}


\* Symbols with the annotation method = Symbol(m), and ((Func (do) do) 1),
\* whose body is a reserved symbol bound as a parameter.
MethodPrograms ==
    {set_annotation(Sym(s, 0), "method", ExprSymbol(m)) :
        s \in {"a", "zz", "+", "do"}, m \in {"write", "a", "qq"}}
    \cup {Lst(<<Lst(<<Sym("Func", 2), Lst(<<Sym("do", 8)>>, 7, 11), Sym("do", 12)>>, 1, 15),
                Atom("1", 16)>>, 0, 18)}


\* (Macro (params) body) at offset p.
MacroDef(params, body, p) ==
    Lst(<<Sym("Macro", p + 1),
          Lst([i \in 1..Len(params) |-> Atom(params[i], p + 2 + i)], p + 2, p + 6),
          Elem(body, p + 7)>>, p, p + 9)

\* ((Macro (params) body) c1 c2 ...)
MacroPrograms ==
    {Form(MacroDef(ps, body, 1), cs) :
        ps \in {<<>>, <<"x">>}, body \in {"x", "1"},
        cs \in SeqsOf({"1", "a", "zz"}, 0, 2)}


\* The parameter list written c at offset p.  The parser turns `()` into
\* One; an empty List is what (Func (List) ..) style construction gives.
ParamsAt(c, p) ==
    CASE c = "()" -> with_range(ExprOne, p, p + 2)
      [] c = "empty" -> Lst(<<>>, p, p + 2)
      [] c = "(x)" -> Lst(<<Sym("x", p + 1)>>, p, p + 3)
      [] c = "(x y)" -> Lst(<<Sym("x", p + 1), Sym("y", p + 3)>>, p, p + 5)
      [] c = "(1)" -> Lst(<<Atom("1", p + 1)>>, p, p + 3)
      [] c = "(x 1)" -> Lst(<<Sym("x", p + 1), Atom("1", p + 3)>>, p, p + 5)
      [] c = "[x]" -> with_range(ExprArray(<<ExprSymbol("x")>>), p, p + 3)
      [] OTHER -> Atom(c, p)

ParamsKinds == {"()", "empty", "(x)", "(x y)", "(1)", "(x 1)", "[x]", "x", "1"}

\* (h), (h params), (h params body) and (h params body extra), h Func or Macro.
FuncDefPrograms ==
    {Lst(<<Sym(h, 1)>>, 0, 40) : h \in {"Func", "Macro"}}
    \cup {Lst(<<Sym(h, 1), ParamsAt(ps, 10)>>, 0, 40) :
            h \in {"Func", "Macro"}, ps \in {"(x)", "()"}}
    \cup {Lst(<<Sym(h, 1), ParamsAt(ps, 10), Elem(body, 20)>>, 0, 40) :
            h \in {"Func", "Macro"}, ps \in ParamsKinds, body \in {"zz", "let_a", "x"}}
    \cup {Lst(<<Sym(h, 1), ParamsAt(ps, 10), Elem(body, 20), Atom("1", 30)>>, 0, 40) :
            h \in {"Func", "Macro"}, ps \in {"(x)"}, body \in {"zz", "x"}}

\* (do c) at offset p.
DoAt(c, p) == Lst(<<Sym("do", p + 1), Elem(c, p + 2)>>, p, p + 8)

\* A form that pushes a scope around a `do`: (do (do c)),
\* ((Func (x) (do c)) 1) and (for_each [true false] x (do c)).
NestedScopePrograms ==
    {Lst(<<Sym("do", 1), DoAt(c, 10)>>, 0, 20) : c \in {"x", "zz", "let_y"}}
    \cup {Lst(<<Lst(<<Sym("Func", 2), Lst(<<Sym("x", 4)>>, 3, 6), DoAt(c, 10)>>, 1, 20),
                Atom("1", 21)>>, 0, 23) : c \in {"x", "zz", "let_y"}}
    \cup {Lst(<<Sym("for_each", 1), SeqAt("arr2", 10), Sym("x", 20), DoAt(c, 30)>>, 0, 40) :
            c \in {"x", "zz", "let_y"}}

\* (eval (quot E))
EvalQuot(E) == Lst(<<Sym("eval", 1), Lst(<<Sym("quot", 3), E>>, 2, 70)>>, 0, 71)

QuotTargets ==
    LiteralPrograms \cup SymbolPrograms \cup DoPrograms \cup MalformedPrograms
    \cup {Form(Sym("let", 1), <<"a", c>>) : c \in {"1", "zz"}}

EvalLiteral == \E x \in LiteralPrograms : Evaluate(x)

EvalSymbol == \E x \in SymbolPrograms : Evaluate(x)

EvalLet == \E x \in LetPrograms \cup LetPairPrograms : Evaluate(x)

EvalDo == \E x \in DoPrograms : Evaluate(x)

EvalApply == \E x \in ApplyPrograms : Evaluate(x)

EvalForeign == \E x \in ForeignPrograms : Evaluate(x)

EvalForEach == \E x \in ForEachPrograms : Evaluate(x)

EvalMalformed == \E x \in MalformedPrograms : Evaluate(x)

EvalClosure == \E x \in ClosurePrograms : Evaluate(x)

EvalCond == \E x \in CondPrograms : Evaluate(x)

EvalIfNoElse == \E x \in IfNoElsePrograms : Evaluate(x)

EvalFor == \E x \in ForPrograms : Evaluate(x)

EvalArrayIndex == \E x \in ArrayIndexPrograms : Evaluate(x)

EvalMethod == \E x \in MethodPrograms : Evaluate(x)

EvalMacroApply == \E x \in MacroPrograms : Evaluate(x)

EvalFuncDef == \E x \in FuncDefPrograms : Evaluate(x)

EvalNestedScope == \E x \in NestedScopePrograms : Evaluate(x)

EvalQuoted == \E E \in QuotTargets : Evaluate(EvalQuot(E))

\* The caller takes the result; env stays as the evaluation left it.
Return ==
    /\ result.tag \in {"Ok", "Err"}
    /\ result' = NoResult
    /\ expr' = Bare(ExprOne)
    /\ env0' = env
    /\ log' = <<>>
    /\ UNCHANGED env
    /\ UNCHANGED textvars
    /\ UNCHANGED itervars

Next ==
    \/ Return
    \/ EvalLiteral
    \/ EvalSymbol
    \/ EvalLet
    \/ EvalDo
    \/ EvalApply
    \/ EvalForeign
    \/ EvalForEach
    \/ EvalMalformed
    \/ EvalClosure
    \/ EvalCond
    \/ EvalIfNoElse
    \/ EvalFor
    \/ EvalArrayIndex
    \/ EvalMethod
    \/ EvalMacroApply
    \/ EvalFuncDef
    \/ EvalNestedScope
    \/ EvalQuoted

Spec == Init /\ [][Next]_vars

(***************************************************************************)
(* Shapes of the last evaluated expression, used by the properties.         *)
(***************************************************************************)
\* The last top-level evaluation has returned and its result is in `result`.
Evaluated == result # NoResult

\* x is a list whose head is written as the symbol h.
IsForm(x, h) == x.e.k = "List" /\ x.e.v # <<>> /\ Head(x.e.v).e = ExprSymbol(h)

Events(op) == {i \in 1..Len(log) : log[i].op = op}

Min(S) == CHOOSE i \in S : \A j \in S : i <= j

\* What an argument written as an atom or as (write 1) must evaluate to in e0:
\* the sequence of its value, empty when its evaluation fails.
ArgValue(a, e0) ==
    IF a.e.k = "Symbol" THEN env_get(e0, a.e.v)
    ELSE IF a.e.k = "List" THEN <<Bare(ExprOne)>>
    ELSE <<a>>

ArgsOk(args, e0) == \A i \in 1..Len(args) : ArgValue(args[i], e0) # <<>>

(***************************************************************************)
(* C1.  Scope balance: after eval returns, with a value or with an error,   *)
(* the depth of the scope stack equals its depth before the call.           *)
(***************************************************************************)
ScopeBalance == Evaluated => Len(env) = Len(env0)

(***************************************************************************)
(* C2.  For every reserved symbol s and every value expression V,           *)
(* evaluating (let s V) returns an InvalidArguments error, does not         *)
(* evaluate V and leaves every scope of the env unchanged.                  *)
(***************************************************************************)
ClaimedReserved ==
    {"do", "ann", "let", "if", "for", "for_each", "eval", "quot", "use",
     "Char", "Func", "Macro", "List", "Array", "Dict"}

IsLetOfReserved(x) ==
    /\ IsForm(x, "let")
    /\ Len(x.e.v) = 3
    /\ x.e.v[2].e.k = "Symbol"
    /\ x.e.v[2].e.v \in ClaimedReserved

ReservedLetRejected ==
    (Evaluated /\ IsLetOfReserved(expr)) =>
        /\ result.tag = "Err"
        /\ result.err.kind = "InvalidArguments"
        /\ result.err.range = get_range(expr.e.v[2])
        /\ env = env0
        /\ \A i \in Events("eval") : log[i].x \in {expr, expr.e.v[1]}
        /\ Events("insert") \cup Events("call") \cup Events("push") = {}

ReservedLetWitness ==
    /\ Evaluated
    /\ IsLetOfReserved(expr)
    /\ expr.e.v[2].e.v = "Dict"
    /\ IsForm(expr.e.v[3], "let")
    /\ result.tag = "Err"

(***************************************************************************)
(* C3.  quot/eval round trip, as claimed: for any parseable expression E    *)
(* and any env, evaluating (eval (quot E)) produces the same result (same   *)
(* value, or same error) and the same final env as evaluating E directly.   *)
(***************************************************************************)
IsEvalQuot(x) ==
    /\ IsForm(x, "eval")
    /\ Len(x.e.v) = 2
    /\ IsForm(x.e.v[2], "quot")
    /\ Len(x.e.v[2].e.v) = 2

QuotTarget(x) == x.e.v[2].e.v[2]

\* The evaluation of E alone from the env the last evaluation started in.
Direct(E) == eval(E, [env |-> env0, log |-> <<>>], MaxFuel)

QuotEvalRoundTrip ==
    (Evaluated /\ IsEvalQuot(expr)) =>
        /\ result = Direct(QuotTarget(expr)).res
        /\ env = Direct(QuotTarget(expr)).st.env

(***************************************************************************)
(* C3, amended.  Evaluating (eval (quot E)) gives exactly the result and    *)
(* the final env of evaluating E stripped of its own annotations (its       *)
(* range included); compared with evaluating E itself, the final env, the   *)
(* success or failure, the underlying expression of the value and the kind  *)
(* and message of the error are the same, while the annotations of a        *)
(* self-evaluated result and the range of an error raised for E's own node  *)
(* may be missing.                                                          *)
(***************************************************************************)
QuotEvalRoundTripUpToAnnotations ==
    (Evaluated /\ IsEvalQuot(expr)) =>
        LET E == QuotTarget(expr)
            d == Direct(E)
            b == Direct(Bare(E.e))
        IN /\ result = b.res
           /\ env = b.st.env
           /\ env = d.st.env
           /\ result.tag = d.res.tag
           /\ result.tag = "Ok" => result.val.e = d.res.val.e
           /\ result.tag = "Err" =>
                  /\ result.err.kind = d.res.err.kind
                  /\ result.err.arg = d.res.err.arg
                  /\ result.err.range \in {d.res.err.range, NoRange}

QuotEvalWitness ==
    /\ Evaluated
    /\ IsEvalQuot(expr)
    /\ IsForm(QuotTarget(expr), "do")
    /\ Len(QuotTarget(expr).e.v) = 3
    /\ IsForm(QuotTarget(expr).e.v[2], "let")
    /\ result.tag = "Ok"
    /\ result.val.e = ExprInt(2)

(***************************************************************************)
(* C4.  Self-evaluation: for every expression whose variant is Bool, Int,   *)
(* Float, Char, String, KeySymbol, Array, Dict or One, eval returns that    *)
(* same expression (same value, range and annotations) and leaves the env   *)
(* unchanged.                                                               *)
(***************************************************************************)
SelfEvaluatingKinds ==
    {"Bool", "Int", "Float", "Char", "String", "KeySymbol", "Array", "Dict", "One"}

SelfEvaluation ==
    (Evaluated /\ expr.e.k \in SelfEvaluatingKinds) =>
        /\ result = [tag |-> "Ok", val |-> expr]
        /\ env = env0

SelfEvaluationWitness ==
    /\ Evaluated
    /\ expr.e.k = "Array"
    /\ has_annotation(expr, "range")
    /\ has_annotation(expr, "type")
    /\ result.tag = "Ok"

(***************************************************************************)
(* C5.  Func application: when the evaluated head of a list is              *)
(* Func(params, body), every tail element is evaluated left to right in     *)
(* the caller's scope before any scope is pushed; then one new scope is     *)
(* pushed, parameter i is bound to argument i for i < min(#params, #args),  *)
(* the body is evaluated, and the scope is popped.  Excess parameters stay  *)
(* unbound, excess arguments are evaluated and bound to nothing, and        *)
(* neither case is an error.                                                *)
(***************************************************************************)
\* x is ((Func (params) body) args...): its head evaluates to a Func value.
IsFuncApp(x) ==
    /\ x.e.k = "List"
    /\ x.e.v # <<>>
    /\ IsForm(Head(x.e.v), "Func")
    /\ Len(Head(x.e.v).e.v) = 3
    /\ Head(x.e.v).e.v[2].e.k = "List"

FuncApplication ==
    (Evaluated /\ IsFuncApp(expr) /\ ArgsOk(Tail(expr.e.v), env0)) =>
        LET params == Head(expr.e.v).e.v[2].e.v
            body == Head(expr.e.v).e.v[3]
            args == Tail(expr.e.v)
            n == Len(args)
            m == IF Len(params) < n THEN Len(params) ELSE n
            d0 == Len(env0)
        IN /\ Len(log) >= n + m + 5
           /\ \A i \in 1..n :
                  /\ log[3 + i].op = "eval"
                  /\ log[3 + i].x = args[i]
                  /\ log[3 + i].d = d0
           /\ Events("push") = {n + 4}
           /\ \A i \in 1..m :
                  /\ log[n + 4 + i].op = "insert"
                  /\ log[n + 4 + i].name = params[i].e.v
                  /\ log[n + 4 + i].val = ArgValue(args[i], env0)[1]
                  /\ log[n + 4 + i].d = d0 + 1
           /\ log[n + m + 5].op = "eval"
           /\ log[n + m + 5].x = body
           /\ log[n + m + 5].d = d0 + 1
           /\ Events("pop") = {Len(log)}
           /\ Len(env) = d0
           /\ \A i \in Events("raise") : i > n + m + 5

(***************************************************************************)
(* C6.  Lexical resolution: a symbol that occurs free in a Func body is     *)
(* resolved in the scopes that enclosed the Func definition, not in the     *)
(* scopes of the caller; a binding of the same name made by `let` in the    *)
(* calling scope, and absent where the function was defined, is not seen    *)
(* by the body.                                                             *)
(***************************************************************************)
\* The free symbol of (do (let f (Func (x) free)) (do (let free c) (f 1))).
FreeSymbol(x) == x.e.v[2].e.v[3].e.v[3]

LexicalResolution ==
    (Evaluated /\ expr \in ClosurePrograms) =>
        IF env_get(env0, FreeSymbol(expr).e.v) = <<>>
        THEN /\ result.tag = "Err"
             /\ result.err.kind = "UndefinedSymbol"
             /\ result.err.arg = <<FreeSymbol(expr).e.v>>
        ELSE result = [tag |-> "Ok", val |-> env_get(env0, FreeSymbol(expr).e.v)[1]]

(***************************************************************************)
(* C7.  for_each: (for_each seq var body) evaluates seq once                *)
(* (InvalidArguments if the result is not an Array, or if var is not a      *)
(* Symbol); then for each element in array order it pushes a new scope,     *)
(* binds var to the element, evaluates body and pops that scope, so that a  *)
(* binding inserted by `let` in the body during one iteration is not        *)
(* visible in the next iteration; it returns One and var is not bound       *)
(* afterwards.                                                              *)
(***************************************************************************)
IsForEach(x) == IsForm(x, "for_each") /\ Len(x.e.v) = 4

ForEachScopes ==
    (Evaluated /\ IsForEach(expr)) =>
        LET seq == expr.e.v[2]
            var == expr.e.v[3]
        IN /\ Cardinality({i \in Events("eval") : log[i].x = seq}) = 1
           /\ (ArgsOk(<<seq>>, env0) /\ ArgValue(seq, env0)[1].e.k # "Array") =>
                  result.tag = "Err" /\ result.err.kind = "InvalidArguments"
           /\ (seq.e.k = "Array" /\ var.e.k # "Symbol") =>
                  result.tag = "Err" /\ result.err.kind = "InvalidArguments"
           /\ (seq.e.k = "Array" /\ var.e.k = "Symbol") =>
                  /\ \A i \in Events("iter") :
                         /\ log[i].scope = EmptyMap
                         /\ log[i].d = Len(env0) + 1
                  /\ Cardinality(Events("push")) = Cardinality(Events("iter"))
                  /\ result.tag = "Ok" =>
                         /\ result.val = Bare(ExprOne)
                         /\ Cardinality(Events("iter")) = Len(seq.e.v)
                         /\ env_get(env, var.e.v) = env_get(env0, var.e.v)

(***************************************************************************)
(* C8.  do and let scoping: `do` evaluates its tail elements in order in    *)
(* one fresh scope and returns the value of the last element (One when the  *)
(* tail is empty); `let` evaluates each value, inserts the binding into the *)
(* innermost scope and returns One; after a `do` returns, a name bound by   *)
(* `let` inside it is no longer visible and an outer binding of the same    *)
(* name has its old value again.                                            *)
(***************************************************************************)
\* The value bound to name where element i of a `do` is evaluated: the latest
\* (let name c) among the elements before i, else the binding in e0.
RECURSIVE BindingAt(_, _, _, _)
BindingAt(name, elems, i, e0) ==
    IF i = 0 THEN env_get(e0, name)
    ELSE IF IsForm(elems[i], "let") /\ elems[i].e.v[2].e.v = name
    THEN <<elems[i].e.v[3]>>
    ELSE BindingAt(name, elems, i - 1, e0)

\* The value of the last element of a `do` whose elements all evaluate.
DoValue(elems, e0) ==
    IF elems = <<>> THEN Bare(ExprOne)
    ELSE LET last == elems[Len(elems)]
         IN IF last.e.k = "List" THEN Bare(ExprOne)
            ELSE IF last.e.k = "Symbol"
            THEN BindingAt(last.e.v, elems, Len(elems) - 1, e0)[1]
            ELSE last

FirstEval(x) == Min({i \in Events("eval") : log[i].x = x})

DoLetScoping ==
    /\ (Evaluated /\ IsForm(expr, "do")) =>
           LET elems == Tail(expr.e.v)
           IN /\ \A name \in {"a", "y", "x", "f"} :
                      env_get(env, name) = env_get(env0, name)
              /\ log[3].op = "push"
              /\ (result.tag = "Ok" /\ expr \in DoPrograms) =>
                     result.val = DoValue(elems, env0)
              /\ result.tag = "Ok" =>
                     /\ \A i \in 1..Len(elems) :
                            /\ \E j \in Events("eval") : log[j].x = elems[i]
                            /\ log[FirstEval(elems[i])].d = Len(env0) + 1
                            /\ i > 1 => FirstEval(elems[i - 1]) < FirstEval(elems[i])
    /\ (/\ Evaluated
        /\ IsForm(expr, "let")
        /\ Len(expr.e.v) = 3
        /\ expr.e.v[2].e.k = "Symbol"
        /\ expr.e.v[2].e.v \notin ClaimedReserved
        /\ ArgsOk(<<expr.e.v[3]>>, env0)) =>
           /\ result = [tag |-> "Ok", val |-> Bare(ExprOne)]
           /\ env = env_insert(env0, expr.e.v[2].e.v, ArgValue(expr.e.v[3], env0)[1])

(***************************************************************************)
(* C9.  Error propagation: for every form other than `use`, when the        *)
(* evaluation of a sub-expression returns an error, the enclosing eval      *)
(* returns that same error with the same kind and the same (innermost)      *)
(* range, and no sibling that comes later in evaluation order is evaluated. *)
(***************************************************************************)
ErrorPropagation ==
    (Evaluated /\ ~IsForm(expr, "use")) =>
        IF Events("raise") = {}
        THEN result.tag # "Err"
        ELSE LET i == Min(Events("raise"))
             IN /\ result = [tag |-> "Err", err |-> log[i].err]
                /\ \A j \in (i + 1)..Len(log) : log[j].op = "pop"
                /\ log[i].err.kind = "UndefinedSymbol" =>
                       /\ log[i - 1].op = "eval"
                       /\ log[i - 1].x.e = ExprSymbol(log[i].err.arg[1])
                       /\ log[i].err.range = get_range(log[i - 1].x)

\* (f zz 1) or (do zz 1): the first of two siblings fails.
ErrorPropagationWitness ==
    /\ Evaluated
    /\ expr.e.k = "List"
    /\ Len(expr.e.v) = 3
    /\ expr.e.v[2].e = ExprSymbol("zz")
    /\ Head(expr.e.v).e = ExprSymbol("+")
    /\ result.tag = "Err"
    /\ result.err.range = get_range(expr.e.v[2])

(***************************************************************************)
(* C10.  Foreign-function contract: when the evaluated head of a list is a  *)
(* ForeignFunc, all tail elements are evaluated left to right before the    *)
(* function is invoked, the function receives exactly the evaluated values  *)
(* in order, it is invoked exactly once, and it is not invoked at all when  *)
(* any argument evaluation fails; the evaluator pushes and pops no scope    *)
(* around the call.                                                         *)
(***************************************************************************)
\* x is (s args...) with s bound in e0 to a foreign function.
IsForeignApp(x, e0) ==
    /\ x.e.k = "List"
    /\ x.e.v # <<>>
    /\ Head(x.e.v).e.k = "Symbol"
    /\ Head(x.e.v).e.v \notin ClaimedReserved
    /\ env_get(e0, Head(x.e.v).e.v) # <<>>
    /\ env_get(e0, Head(x.e.v).e.v)[1].e.k = "ForeignFunc"

\* The arguments among args[1..k] that are themselves foreign calls.
NestedCalls(args, k) == {i \in 1..k : args[i].e.k = "List"}

ForeignContract ==
    (Evaluated /\ IsForeignApp(expr, env0)) =>
        LET f == env_get(env0, Head(expr.e.v).e.v)[1].e.v
            args == Tail(expr.e.v)
            n == Len(args)
            failing == {i \in 1..n : ArgValue(args[i], env0) = <<>>}
        IN /\ Events("push") \cup Events("pop") = {}
           /\ env = env0
           /\ IF failing = {}
              THEN /\ Cardinality(Events("call")) = Cardinality(NestedCalls(args, n)) + 1
                   /\ \A i \in Events("eval") \cup Events("call") : i <= Len(log)
                   /\ \E c \in Events("call") :
                          /\ log[c].f = f
                          /\ log[c].args = [i \in 1..n |-> ArgValue(args[i], env0)[1]]
                          /\ \A j \in Events("eval") \cup Events("call") : j <= c
                          /\ \A i \in 1..n :
                                 /\ \E j \in Events("eval") : log[j].x = args[i]
                                 /\ FirstEval(args[i]) < c
                                 /\ i > 1 => FirstEval(args[i - 1]) < FirstEval(args[i])
              ELSE Cardinality(Events("call")) =
                       Cardinality(NestedCalls(args, Min(failing) - 1))

\* (+ a 1) with a bound: both arguments evaluated, then one call.
ForeignContractWitness ==
    /\ Evaluated
    /\ IsForeignApp(expr, env0)
    /\ Len(expr.e.v) = 3
    /\ expr.e.v[2].e = ExprSymbol("a")
    /\ result.tag = "Ok"
    /\ result.val.e = ExprInt(2)
    /\ Cardinality(Events("call")) = 1

(***************************************************************************)
(* C11.  Conditionals: the pre-lowered If(p, t, e?) and the list form       *)
(* (if p t e?) give the same result in the same env: p is evaluated once;   *)
(* if its value is not a Bool the result is InvalidArguments and neither    *)
(* branch is evaluated; if true only t is evaluated and its result          *)
(* returned; if false only e is evaluated, or One is returned when e is     *)
(* absent.                                                                  *)
(***************************************************************************)
IsConditional(x) ==
    \/ x.e.k = "If"
    \/ IsForm(x, "if") /\ Len(x.e.v) \in {3, 4}

IfPredicate(x) == IF x.e.k = "If" THEN x.e.p ELSE x.e.v[2]

IfTrueClause(x) == IF x.e.k = "If" THEN x.e.t ELSE x.e.v[3]

\* The false clause as a sequence, empty when absent.
IfFalseClause(x) ==
    IF x.e.k = "If" THEN x.e.f
    ELSE IF Len(x.e.v) = 4 THEN <<x.e.v[4]>> ELSE <<>>

\* The same conditional written in the other of the two forms.
OtherForm(x) ==
    IF x.e.k = "If"
    THEN Ann(ExprList(<<Sym("if", 1), x.e.p, x.e.t>> \o x.e.f), x.ann)
    ELSE Ann(ExprIf(IfPredicate(x), IfTrueClause(x), IfFalseClause(x)), x.ann)

EvalsOf(x) == {i \in Events("eval") : log[i].x = x}

\* The result of evaluating the branch b, an atom or a let, from e0.
BranchResult(b, e0) ==
    IF ArgValue(b, e0) # <<>>
    THEN result = [tag |-> "Ok", val |-> ArgValue(b, e0)[1]]
    ELSE result.tag = "Err" /\ result.err.kind = "UndefinedSymbol"

ConditionalEquivalence ==
    (Evaluated /\ IsConditional(expr)) =>
        LET p == IfPredicate(expr)
            t == IfTrueClause(expr)
            e == IfFalseClause(expr)
            other == eval(OtherForm(expr), [env |-> env0, log |-> <<>>], MaxFuel)
            pv == ArgValue(p, env0)
        IN /\ other.res = result
           /\ other.st.env = env
           /\ Cardinality(EvalsOf(p)) = 1
           /\ pv = <<>> =>
                  /\ result.tag = "Err"
                  /\ EvalsOf(t) = {}
                  /\ \A i \in 1..Len(e) : EvalsOf(e[i]) = {}
           /\ (pv # <<>> /\ pv[1].e.k # "Bool") =>
                  /\ result.tag = "Err"
                  /\ result.err.kind = "InvalidArguments"
                  /\ EvalsOf(t) = {}
                  /\ \A i \in 1..Len(e) : EvalsOf(e[i]) = {}
                  /\ env = env0
           /\ (pv # <<>> /\ pv[1].e = ExprBool(TRUE)) =>
                  /\ Cardinality(EvalsOf(t)) = 1
                  /\ \A i \in 1..Len(e) : EvalsOf(e[i]) = {}
                  /\ BranchResult(t, env0)
           /\ (pv # <<>> /\ pv[1].e = ExprBool(FALSE)) =>
                  /\ EvalsOf(t) = {}
                  /\ \A i \in 1..Len(e) : Cardinality(EvalsOf(e[i])) = 1
                  /\ IF e = <<>>
                     THEN result = [tag |-> "Ok", val |-> Bare(ExprOne)] /\ env = env0
                     ELSE BranchResult(e[1], env0)

\* (if false t) without a false clause returned One.
ConditionalWitness ==
    /\ Evaluated
    /\ IsForm(expr, "if")
    /\ Len(expr.e.v) = 3
    /\ expr.e.v[2].e = ExprBool(FALSE)
    /\ result = [tag |-> "Ok", val |-> Bare(ExprOne)]

(***************************************************************************)
(* C12.  for: (for pred body) evaluates pred before each iteration; a       *)
(* non-Bool predicate value is an InvalidArguments error; body is evaluated *)
(* exactly once for each time pred evaluated to true, the loop stops at the *)
(* first false, and the result is the value of the last body evaluation, or *)
(* One when pred was false the first time.  The loop pushes no scope, so    *)
(* the scope-stack depth is the same at each predicate evaluation.          *)
(***************************************************************************)
\* expr is (for pred body), or (do (let b B) (let c C) (for pred body)).
HasFor(x) ==
    \/ IsForm(x, "for") /\ Len(x.e.v) = 3
    \/ IsForm(x, "do") /\ Len(x.e.v) = 4 /\ IsForm(x.e.v[4], "for")

ForOf(x) == IF IsForm(x, "for") THEN x ELSE x.e.v[4]

Max(S) == CHOOSE i \in S : \A j \in S : j <= i

\* The binding of name when event i of the trace happens: the value of the
\* latest insert before i, else the binding at the start.
BoundAt(name, i) ==
    LET I == {j \in Events("insert") : j < i /\ log[j].name = name}
    IN IF I = {} THEN env_get(env0, name) ELSE <<log[Max(I)].val>>

\* The value of the predicate evaluated at event i, empty when unbound.
PredValueAt(pred, i) == IF pred.e.k = "Symbol" THEN BoundAt(pred.e.v, i) ELSE <<pred>>

PredTrueAt(pred, i) ==
    PredValueAt(pred, i) # <<>> /\ PredValueAt(pred, i)[1].e = ExprBool(TRUE)

\* The value of the last evaluation of a loop body that returned.
LastBodyValue(body) ==
    IF IsForm(body, "List")
    THEN Bare(ExprList(<<BoundAt("c", Len(log) + 1)[1], Bare(ExprOne)>>))
    ELSE IF body.e.k = "List" THEN Bare(ExprOne)
    ELSE body

ForLoop ==
    (Evaluated /\ HasFor(expr)) =>
        LET pred == ForOf(expr).e.v[2]
            body == ForOf(expr).e.v[3]
            PE == EvalsOf(pred)
            BE == EvalsOf(body)
            Next2(i) == {k \in PE \cup BE : k > i}
        IN /\ PE # {}
           /\ \A i, j \in PE : log[i].d = log[j].d
           /\ \A i \in PE \cup BE :
                  {k \in Events("push") \cup Events("pop") :
                       k > Min(PE) /\ k < i /\ log[k].d <= log[Min(PE)].d} = {}
           /\ \A j \in BE : \E i \in PE : i < j /\ PredTrueAt(pred, i) /\ Min(Next2(i)) = j
           /\ \A i \in PE :
                  IF PredTrueAt(pred, i)
                  THEN /\ Next2(i) # {}
                       /\ Min(Next2(i)) \in BE
                       /\ \A j \in BE : Next2(j) # {} => Min(Next2(j)) \in PE
                  ELSE /\ Next2(i) = {}
                       /\ PredValueAt(pred, i) = <<>> => result.tag = "Err"
                       /\ (PredValueAt(pred, i) # <<>>
                           /\ PredValueAt(pred, i)[1].e.k # "Bool") =>
                              /\ result.tag = "Err"
                              /\ result.err.kind = "InvalidArguments"
                       /\ (PredValueAt(pred, i) # <<>>
                           /\ PredValueAt(pred, i)[1].e = ExprBool(FALSE)) =>
                              result = [tag |-> "Ok",
                                        val |-> IF BE = {} THEN Bare(ExprOne)
                                                ELSE LastBodyValue(body)]

\* Two iterations: the predicate was evaluated three times and the loop
\* returned the value of the second body evaluation.
ForLoopWitness ==
    /\ Evaluated
    /\ HasFor(expr)
    /\ IsForm(ForOf(expr).e.v[3], "List")
    /\ Cardinality(EvalsOf(ForOf(expr).e.v[2])) = 3
    /\ Cardinality(EvalsOf(ForOf(expr).e.v[3])) = 2
    /\ result.tag = "Ok"
    /\ result.val.e.k = "List"

(***************************************************************************)
(* C13.  Array indexing: when the evaluated head of a list is Array(a) and  *)
(* the first evaluated argument is Int(i), the result is a[i] when          *)
(* 0 <= i < len(a) and One otherwise (including every negative i); when     *)
(* the first argument is not an Int the result is an InvalidArguments       *)
(* error.                                                                   *)
(***************************************************************************)
\* x is (arr args...) with arr an array literal and at least one argument.
IsArrayIndex(x) ==
    /\ x.e.k = "List"
    /\ Len(x.e.v) >= 2
    /\ Head(x.e.v).e.k = "Array"

ArrayIndexing ==
    (Evaluated /\ IsArrayIndex(expr) /\ ArgsOk(Tail(expr.e.v), env0)) =>
        LET a == Head(expr.e.v).e.v
            index == ArgValue(expr.e.v[2], env0)[1]
        IN IF index.e.k = "Int"
           THEN /\ result.tag = "Ok"
                /\ result.val.e = IF 0 <= index.e.v /\ index.e.v < Len(a)
                                  THEN a[index.e.v + 1]
                                  ELSE ExprOne
                /\ env = env0
           ELSE /\ result.tag = "Err"
                /\ result.err.kind = "InvalidArguments"

\* ([true 2] 1) returned 2, the second element.
ArrayIndexingWitness ==
    /\ Evaluated
    /\ IsArrayIndex(expr)
    /\ expr.e.v[2].e = ExprInt(1)
    /\ result.tag = "Ok"
    /\ result.val.e = ExprInt(2)

(***************************************************************************)
(* C14.  Symbol evaluation: a reserved symbol evaluates to itself without   *)
(* an env lookup.  A non-reserved symbol s with annotation                  *)
(* method = Symbol(m) evaluates to the binding of m if m is bound, else to  *)
(* the binding of s, else fails with UndefinedFunction; a non-reserved      *)
(* symbol without a method annotation evaluates to the innermost binding of *)
(* s, else fails with UndefinedSymbol(s).  The error carries the range of   *)
(* the symbol expression.                                                   *)
(***************************************************************************)
\* The binding of name in the innermost scope that has one, empty if none.
Innermost(scopes, name) ==
    LET I == {i \in 1..Len(scopes) : name \in DOMAIN scopes[i]}
    IN IF I = {} THEN <<>> ELSE <<scopes[Max(I)][name]>>

HasMethod(x) == "method" \in DOMAIN x.ann /\ x.ann["method"].k = "Symbol"

SymbolEvaluation ==
    /\ (Evaluated /\ expr.e.k = "Symbol") =>
           LET s == expr.e.v
               bs == Innermost(env0, s)
           IN /\ env = env0
              /\ IF s \in ClaimedReserved
                 THEN result = [tag |-> "Ok", val |-> expr]
                 ELSE IF HasMethod(expr)
                 THEN LET bm == Innermost(env0, expr.ann["method"].v)
                      IN IF bm # <<>> THEN result = [tag |-> "Ok", val |-> bm[1]]
                         ELSE IF bs # <<>> THEN result = [tag |-> "Ok", val |-> bs[1]]
                         ELSE /\ result.tag = "Err"
                              /\ result.err.kind = "UndefinedFunction"
                              /\ result.err.range = get_range(expr)
                 ELSE IF bs # <<>> THEN result = [tag |-> "Ok", val |-> bs[1]]
                 ELSE /\ result.tag = "Err"
                      /\ result.err.kind = "UndefinedSymbol"
                      /\ result.err.arg = <<s>>
                      /\ result.err.range = get_range(expr)
    /\ (Evaluated /\ IsFuncApp(expr) /\ Head(expr.e.v).e.v[3].e.k = "Symbol"
        /\ Head(expr.e.v).e.v[3].e.v \in ClaimedReserved) =>
           (result.tag = "Ok" => result.val = Head(expr.e.v).e.v[3])
    /\ (/\ Evaluated
        /\ IsForm(expr, "do")
        /\ Len(expr.e.v) = 3
        /\ IsForm(expr.e.v[2], "let")
        /\ expr.e.v[3].e.k = "Symbol"
        /\ expr.e.v[3].e = expr.e.v[2].e.v[2].e) =>
           result = [tag |-> "Ok", val |-> expr.e.v[2].e.v[3]]

\* A symbol with method = Symbol(m), m unbound, evaluated to its own binding.
SymbolEvaluationWitness ==
    /\ Evaluated
    /\ expr.e.k = "Symbol"
    /\ HasMethod(expr)
    /\ Innermost(env0, expr.ann["method"].v) = <<>>
    /\ Innermost(env0, expr.e.v) # <<>>
    /\ result.tag = "Ok"
    /\ result.val = Innermost(env0, expr.e.v)[1]

\* (do (let a 2) a) where a is bound to 1 outside returned 2.
InnermostWitness ==
    /\ Evaluated
    /\ IsForm(expr, "do")
    /\ Len(expr.e.v) = 3
    /\ expr.e.v[3].e = ExprSymbol("a")
    /\ Innermost(env0, "a") # <<>>
    /\ Innermost(env0, "a")[1].e = ExprInt(1)
    /\ result.tag = "Ok"
    /\ result.val.e = ExprInt(2)

\* A reserved symbol bound as a parameter evaluated to itself.
ReservedSelfWitness ==
    /\ Evaluated
    /\ IsFuncApp(expr)
    /\ Head(expr.e.v).e.v[3].e = ExprSymbol("do")
    /\ result.tag = "Ok"
    /\ result.val.e = ExprSymbol("do")

(***************************************************************************)
(* C15.  Macro application: when the evaluated head of a list is            *)
(* Macro(params, body), the call proceeds like a Func application (new      *)
(* scope, parameters bound, body evaluated, scope popped) except that the   *)
(* tail elements are bound to the parameters unevaluated.                   *)
(***************************************************************************)
\* x is ((Macro (params) body) args...): its head evaluates to a Macro value.
IsMacroApp(x) ==
    /\ x.e.k = "List"
    /\ x.e.v # <<>>
    /\ IsForm(Head(x.e.v), "Macro")
    /\ Len(Head(x.e.v).e.v) = 3
    /\ Head(x.e.v).e.v[2].e.k = "List"

MacroApplication ==
    (Evaluated /\ IsMacroApp(expr)) =>
        LET params == Head(expr.e.v).e.v[2].e.v
            body == Head(expr.e.v).e.v[3]
            args == Tail(expr.e.v)
            m == IF Len(params) < Len(args) THEN Len(params) ELSE Len(args)
        IN /\ Cardinality(Events("push")) = 1
           /\ Cardinality(Events("pop")) = 1
           /\ Len(env) = Len(env0)
           /\ \A i \in 1..Len(args) : EvalsOf(args[i]) = {}
           /\ \A i \in 1..m :
                  \E j \in Events("insert") :
                      log[j].name = params[i].e.v /\ log[j].val = args[i]
           /\ Cardinality(EvalsOf(body)) = 1
           /\ (body.e.k = "Symbol" /\ m >= 1 /\ params[1].e = body.e) =>
                  result = [tag |-> "Ok", val |-> args[1]]
           /\ body.e.k # "Symbol" => result = [tag |-> "Ok", val |-> body]

(***************************************************************************)
(* C16.  Function definition: (Func params-list body) and                   *)
(* (Macro params-list body) return a Func/Macro value holding copies of the *)
(* parameters and of the unevaluated body if and only if the tail has       *)
(* exactly two elements and params-list is a List all of whose entries are  *)
(* Symbols (including the empty parameter list written `()`); otherwise the *)
(* definition itself fails with InvalidArguments.  The body is not          *)
(* evaluated at definition time and the env is unchanged.                   *)
(***************************************************************************)
IsDefinition(x) == IsForm(x, "Func") \/ IsForm(x, "Macro")

\* The entries of a well-formed parameter list as a sequence of one sequence,
\* empty when ps is not a list of symbols; `()` is the empty parameter list.
ParamEntries(ps) ==
    IF ps.e.k = "One" THEN << <<>> >>
    ELSE IF ps.e.k = "List" /\ \A i \in 1..Len(ps.e.v) : ps.e.v[i].e.k = "Symbol"
    THEN <<ps.e.v>>
    ELSE <<>>

FuncDefinition ==
    (Evaluated /\ IsDefinition(expr)) =>
        LET tail == Tail(expr.e.v)
            valid == Len(tail) = 2 /\ ParamEntries(tail[1]) # <<>>
        IN /\ env = env0
           /\ Len(tail) >= 2 => EvalsOf(tail[2]) = {}
           /\ Events("insert") \cup Events("push") = {}
           /\ IF valid
              THEN /\ result.tag = "Ok"
                   /\ result.val.e.k = Head(expr.e.v).e.v
                   /\ result.val.e.params = ParamEntries(tail[1])[1]
                   /\ result.val.e.body = tail[2]
              ELSE /\ result.tag = "Err"
                   /\ result.err.kind = "InvalidArguments"

(***************************************************************************)
(* The lexer (src/src/lexer.rs).  A text is a sequence of one-character     *)
(* strings; a range <<s, e>> is the Rust range s..e.  The lexer state holds *)
(* the characters not yet read, the index and the stack of characters put   *)
(* back.                                                                    *)
(***************************************************************************)
RECURSIVE scan_loop(_, _)
RECURSIVE comment_loop(_, _)
RECURSIVE string_loop(_, _)
RECURSIVE annotation_loop(_, _, _)
RECURSIVE lex_loop(_, _)
RECURSIVE replace_prefix(_, _, _)
RECURSIVE digits_value(_, _)

is_whitespace(ch) == ch \in {" ", "\t", "\n", "\r", ","}

is_delimiter(ch) == ch \in {"(", ")"}

is_eol(ch) == ch = "\n"

is_numeric(ch) == ch \in {"0", "1", "2", "3", "4", "5", "6", "7", "8", "9"}

\* F applied to the value of x: x is computed once, as a `let` of the
\* source computes its right-hand side once.
Let(F(_), x) == CHOOSE r \in {F(v) : v \in {x}} : TRUE

Lexer_new(text) == [chars |-> text, index |-> 0, lookahead |-> <<>>]

\* The next character as a sequence, empty at the end of the input; the
\* index is incremented in either case.
next_char(l) ==
    LET l1 == [l EXCEPT !.index = @ + 1]
    IN IF l.lookahead # <<>>
       THEN [l |-> [l1 EXCEPT !.lookahead = SubSeq(@, 1, Len(@) - 1)],
             ch |-> <<l.lookahead[Len(l.lookahead)]>>]
       ELSE IF l.chars # <<>>
       THEN [l |-> [l1 EXCEPT !.chars = Tail(@)], ch |-> <<Head(l.chars)>>]
       ELSE [l |-> l1, ch |-> <<>>]

put_back_char(l, ch) ==
    [l EXCEPT !.lookahead = Append(@, ch), !.index = @ - 1]

\* One iteration of the loop of scan_lexeme, once next_char returned n.
scan_step(n, text) ==
    IF n.ch = <<>> THEN [l |-> n.l, text |-> text]
    ELSE IF is_whitespace(n.ch[1]) \/ is_delimiter(n.ch[1]) \/ is_eol(n.ch[1])
    THEN [l |-> put_back_char(n.l, n.ch[1]), text |-> text]
    ELSE scan_loop(n.l, Append(text, n.ch[1]))

scan_loop(l, text) == Let(LAMBDA n : scan_step(n, text), next_char(l))

scan_lexeme(l) ==
    Let(LAMBDA r : [l |-> r.l, text |-> r.text, range |-> <<l.index, r.l.index>>],
        scan_loop(l, <<>>))

\* Ranged(Token, range): the kind of token, its text (the value n for a
\* Number) and its range.
Token(t, text, range) == [t |-> t, text |-> text, n |-> 0, range |-> range]

NumberToken(n, range) == [t |-> "Number", text |-> <<>>, n |-> n, range |-> range]

LexOk(l, token) == [l |-> l, res |-> [tag |-> "Ok", token |-> token]]

LexErr(l, kind, range) ==
    [l |-> l, res |-> [tag |-> "Err", err |-> [kind |-> kind, range |-> range]]]

\* One iteration of the loop of lex_comment, once next_char returned n.
comment_step(n, text) ==
    IF n.ch = <<>> \/ n.ch = <<"\n">> THEN [l |-> n.l, text |-> text]
    ELSE comment_loop(n.l, Append(text, n.ch[1]))

comment_loop(l, text) == Let(LAMBDA n : comment_step(n, text), next_char(l))

lex_comment(l) ==
    Let(LAMBDA r : LexOk(r.l, Token("Comment", r.text, <<l.index - 1, r.l.index - 1>>)),
        comment_loop(l, <<";">>))

\* str.replace(a ++ b, "") for a two-character pattern.
replace_prefix(text, a, b) ==
    IF Len(text) < 2 THEN text
    ELSE IF text[1] = a /\ text[2] = b THEN replace_prefix(SubSeq(text, 3, Len(text)), a, b)
    ELSE <<text[1]>> \o replace_prefix(Tail(text), a, b)

starts_with(text, a, b) == Len(text) >= 2 /\ text[1] = a /\ text[2] = b

is_digit(ch, radix) ==
    \/ ch \in {"0", "1"}
    \/ radix >= 10 /\ is_numeric(ch)
    \/ radix = 16 /\ ch \in {"a", "b", "c", "d", "e", "f", "A", "B", "C", "D", "E", "F"}

digit_value(ch) ==
    LET lower == <<"0", "1", "2", "3", "4", "5", "6", "7", "8", "9",
                   "a", "b", "c", "d", "e", "f">>
        upper == <<"0", "1", "2", "3", "4", "5", "6", "7", "8", "9",
                   "A", "B", "C", "D", "E", "F">>
    IN (CHOOSE i \in 1..16 : lower[i] = ch \/ upper[i] = ch) - 1

\* The value of a sequence of digits, the most significant first.
digits_value(digits, radix) ==
    IF digits = <<>> THEN 0
    ELSE digits_value(SubSeq(digits, 1, Len(digits) - 1), radix) * radix
         + digit_value(digits[Len(digits)])

\* i64::from_str_radix: an optional sign and at least one digit.  The texts
\* of the model are too short for a value outside i64.
from_str_radix(text, radix) ==
    LET digits == IF text # <<>> /\ text[1] \in {"-", "+"} THEN Tail(text) ELSE text
        ok == digits # <<>> /\ \A i \in 1..Len(digits) : is_digit(digits[i], radix)
    IN IF ~ok THEN [ok |-> FALSE, n |-> 0]
       ELSE [ok |-> TRUE,
             n |-> IF text[1] = "-" THEN 0 - digits_value(digits, radix)
                   ELSE digits_value(digits, radix)]

\* lex_number once scan_lexeme returned s.
number_token(s) ==
    LET lexeme == SelectSeq(s.text, LAMBDA ch : ch # "_")
        number == IF starts_with(lexeme, "0", "x") THEN replace_prefix(lexeme, "0", "x")
                  ELSE IF starts_with(lexeme, "0", "b") THEN replace_prefix(lexeme, "0", "b")
                  ELSE lexeme
        radix == IF starts_with(lexeme, "0", "x") THEN 16
                 ELSE IF starts_with(lexeme, "0", "b") THEN 2
                 ELSE 10
        n == from_str_radix(number, radix)
    IN IF n.ok
       THEN LexOk(s.l, NumberToken(n.n, s.range))
       ELSE LexErr(s.l, "NumberError", s.range)

lex_number(l) == Let(number_token, scan_lexeme(l))

\* lex_symbol once scan_lexeme returned s.
symbol_token(s) ==
    LexOk(s.l, Token(IF s.text = <<"i", "f">> THEN "If"
                     ELSE IF s.text = <<"u", "s", "i", "n", "g">> THEN "Using"
                     ELSE "Symbol",
                     s.text, s.range))

lex_symbol(l) == Let(symbol_token, scan_lexeme(l))

\* One iteration of the loop of lex_string, once next_char returned n.
string_step(n, text) ==
    IF n.ch = <<>> \/ n.ch = <<"\"">> THEN [l |-> n.l, text |-> text, ch |-> n.ch]
    ELSE string_loop(n.l, Append(text, n.ch[1]))

string_loop(l, text) == Let(LAMBDA n : string_step(n, text), next_char(l))

\* lex_string that leaves the end of the range of an unterminated string one
\* past the input.
lex_string_keeps_end(l) ==
    Let(LAMBDA r : IF r.ch # <<"\"">>
                   THEN LexErr(r.l, "UnterminatedStringError", <<l.index - 1, r.l.index>>)
                   ELSE LexOk(r.l, Token("String", r.text, <<l.index - 1, r.l.index>>)),
        string_loop(l, <<>>))

lex_string(l) ==
    Let(LAMBDA r : IF r.ch # <<"\"">>
                   THEN LexErr(r.l, "UnterminatedStringError",
                               <<l.index - 1, r.l.index - 1>>)
                   ELSE LexOk(r.l, Token("String", r.text, <<l.index - 1, r.l.index>>)),
        string_loop(l, <<>>))

\* One iteration of the loop of lex_annotation, once next_char returned n.
annotation_step(n, text, nesting) ==
    IF n.ch = <<>> THEN [l |-> n.l, text |-> text, nesting |-> nesting]
    ELSE IF n.ch[1] = "(" THEN annotation_loop(n.l, Append(text, "("), nesting + 1)
    ELSE IF n.ch[1] = ")" THEN annotation_loop(n.l, Append(text, ")"), nesting - 1)
    ELSE IF nesting = 0 /\ (is_whitespace(n.ch[1]) \/ is_eol(n.ch[1]))
    THEN [l |-> put_back_char(n.l, n.ch[1]), text |-> text, nesting |-> nesting]
    ELSE annotation_loop(n.l, Append(text, n.ch[1]), nesting)

annotation_loop(l, text, nesting) ==
    Let(LAMBDA n : annotation_step(n, text, nesting), next_char(l))

lex_annotation(l) ==
    Let(LAMBDA r : IF r.nesting # 0
                   THEN LexErr(r.l, "UnterminatedAnnotationError", <<l.index - 1, r.l.index>>)
                   ELSE LexOk(r.l, Token("Annotation", r.text, <<l.index - 1, r.l.index>>)),
        annotation_loop(l, <<>>, 0))

\* The number or symbol that starts with `-` and goes on with ch1, once both
\* characters are put back.
minus_token(back, ch1) == IF is_numeric(ch1) THEN lex_number(back) ELSE lex_symbol(back)

\* The `-` arm of lex, once next_char returned n.
minus_next(n) ==
    IF n.ch = <<>>
    THEN LexErr(n.l, "UnexpectedEol", <<n.l.index - 1, n.l.index - 1>>)
    ELSE minus_token(put_back_char(put_back_char(n.l, n.ch[1]), "-"), n.ch[1])

\* minus_next that puts the `-` back before the character after it.
minus_next_swapped(n) ==
    IF n.ch = <<>>
    THEN LexErr(n.l, "UnexpectedEol", <<n.l.index - 1, n.l.index - 1>>)
    ELSE minus_token(put_back_char(put_back_char(n.l, "-"), n.ch[1]), n.ch[1])

\* lex_minus with the two characters put back in the wrong order.
lex_minus_swapped(l) == Let(minus_next_swapped, next_char(l))

\* The token or error that starts with `-`, already read.
lex_minus(l) == Let(minus_next, next_char(l))

\* The match of lex on the character ch just read.
lex_char(l, ch) ==
    CASE ch = "(" -> LexOk(l, Token("LeftParen", <<>>, <<l.index, l.index>>))
      [] ch = ")" -> LexOk(l, Token("RightParen", <<>>, <<l.index, l.index>>))
      [] ch = ";" -> lex_comment(l)
      [] ch = "\"" -> lex_string(l)
      [] ch = "-" -> lex_minus(l)
      [] ch = "#" -> lex_annotation(l)
      [] OTHER ->
             IF is_whitespace(ch) THEN [l |-> l, res |-> [tag |-> "Skip"]]
             ELSE IF is_numeric(ch) THEN lex_number(put_back_char(l, ch))
             ELSE lex_symbol(put_back_char(l, ch))

\* The lexer at the top of the main loop of lex, with the tokens so far.
LexRun(l, tokens) == [tag |-> "Run", l |-> l, tokens |-> tokens]

\* tokens.push(..?): the error ends lex, the token is pushed.
lex_push(r, tokens) ==
    IF r.res.tag = "Err" THEN [tag |-> "Err", err |-> r.res.err]
    ELSE IF r.res.tag = "Skip" THEN LexRun(r.l, tokens)
    ELSE LexRun(r.l, Append(tokens, r.res.token))

\* lex once next_char returned n.
lex_next(n, tokens) ==
    IF n.ch = <<>> THEN [tag |-> "Ok", tokens |-> tokens]
    ELSE Let(LAMBDA r : lex_push(r, tokens), lex_char(n.l, n.ch[1]))

\* One iteration of the main loop of lex: the lexer at the top of the next
\* iteration, or what lex returns.
lex_iteration(l, tokens) == Let(LAMBDA n : lex_next(n, tokens), next_char(l))

\* The loop goes on until lex returns.
lex_continue(s) == IF s.tag = "Run" THEN lex_loop(s.l, s.tokens) ELSE s

\* The main loop of lex: the tokens so far, then all tokens or the error.
lex_loop(l, tokens) == Let(lex_continue, lex_iteration(l, tokens))

lex(text) == lex_loop(Lexer_new(text), <<>>)

(***************************************************************************)
(* The parser (src/src/parser.rs).  The parser state holds the tokens not   *)
(* yet read, the buffered annotations (none when empty), start, index, the  *)
(* stack of tokens put back and the errors; panicked records that a step    *)
(* aborted the process.                                                     *)
(***************************************************************************)
RECURSIVE to_string(_)
RECURSIVE parse_expr(_)
RECURSIVE parse_many_loop(_, _, _)
RECURSIVE attach_loop(_, _, _, _)
RECURSIVE parse_loop(_, _)
RECURSIVE dict_of(_)

\* The String made of the characters of a text.
to_string(text) == IF text = <<>> THEN "" ELSE text[1] \o to_string(Tail(text))

Parser_new(tokens) ==
    [tokens |-> tokens, buffered_annotations |-> <<>>, start |-> 0, index |-> 0,
     lookahead |-> <<>>, errors |-> <<>>, panicked |-> FALSE]

\* The next token as a sequence, empty when there is none.
next_token(p) ==
    IF p.lookahead # <<>>
    THEN [p |-> [p EXCEPT !.lookahead = SubSeq(@, 1, Len(@) - 1),
                          !.index = p.lookahead[Len(p.lookahead)].range[2]],
          tok |-> <<p.lookahead[Len(p.lookahead)]>>]
    ELSE IF p.tokens # <<>>
    THEN [p |-> [p EXCEPT !.tokens = Tail(@), !.index = Head(p.tokens).range[2]],
          tok |-> <<Head(p.tokens)>>]
    ELSE [p |-> p, tok |-> <<>>]

put_back_token(p, token) ==
    [p EXCEPT !.index = token.range[1], !.lookahead = Append(@, token)]

range(p) == <<p.start, p.index>>

push_error(p, error, r) ==
    [p EXCEPT !.errors = Append(@, [kind |-> error, range |-> r])]

ParseOk(p, e) == [p |-> p, res |-> [tag |-> "Ok", expr |-> e]]

\* Err(NonRecoverableError {})
ParseErr(p) == [p |-> p, res |-> [tag |-> "Err"]]

is_uppercase(ch) ==
    ch \in {"A", "B", "C", "D", "E", "F", "G", "H", "I", "J", "K", "L", "M",
            "N", "O", "P", "Q", "R", "S", "T", "U", "V", "W", "X", "Y", "Z"}

parse_symbol(s) ==
    IF s # <<>> /\ s[1] = ":" THEN ExprKeySymbol(to_string(Tail(s)))
    ELSE IF s = <<"t", "r", "u", "e">> THEN ExprBool(TRUE)
    ELSE IF s = <<"f", "a", "l", "s", "e">> THEN ExprBool(FALSE)
    ELSE ExprSymbol(to_string(s))

\* The Dict of the pairs args.chunks(2), keyed by format_value of the key.
dict_of(args) ==
    IF args = <<>> THEN EmptyMap
    ELSE dict_of(SubSeq(args, 1, Len(args) - 2))
         @@ (format_value(args[Len(args) - 1].e) :> args[Len(args)].e)

parse_many(p, delimiter) == parse_many_loop(p, delimiter, <<>>)

\* push_error(MalformedAnnotation) and return of the expression as it is.
malformed_annotation(p, x, a) ==
    [p |-> push_error(p, "MalformedAnnotation", a.range), expr |-> x]

\* attach_annotations once the i-th annotation is lexed into tokens and
\* parsed into ann_expr.  An annotation that parses to a Symbol has that
\* symbol as its first token.
attach_parsed(p, x, anns, i, tokens, ann_expr) ==
    IF ann_expr.tag = "Panic" THEN [p |-> [p EXCEPT !.panicked = TRUE], expr |-> x]
    ELSE IF ann_expr.tag = "Err"
    THEN [p |-> [p EXCEPT !.errors = @ \o ann_expr.errors], expr |-> x]
    ELSE IF ann_expr.exprs = <<>>
    THEN \* swap_remove(0) of an empty vector
         [p |-> [p EXCEPT !.panicked = TRUE], expr |-> x]
    ELSE IF ann_expr.exprs[1].e.k = "Symbol"
    THEN IF ann_expr.exprs[1].e.v = "" THEN malformed_annotation(p, x, anns[i])
         ELSE attach_loop(p,
                          IF is_uppercase(tokens[1].text[1])
                          THEN set_annotation(x, "type", ann_expr.exprs[1].e)
                          ELSE set_annotation(x, ann_expr.exprs[1].e.v, ExprBool(TRUE)),
                          anns, i + 1)
    ELSE IF ann_expr.exprs[1].e.k = "List" /\ ann_expr.exprs[1].e.v[1].e.k = "Symbol"
    THEN attach_loop(p, set_annotation(x, ann_expr.exprs[1].e.v[1].e.v, ann_expr.exprs[1].e),
                     anns, i + 1)
    ELSE malformed_annotation(p, x, anns[i])

\* attach_annotations once the i-th annotation is lexed.
attach_lexed(p, x, anns, i, lexer) ==
    IF lexer.tag = "Err" THEN malformed_annotation(p, x, anns[i])
    ELSE attach_parsed(p, x, anns, i, lexer.tokens,
                       parse_loop(Parser_new(lexer.tokens), <<>>))

\* The loop of attach_annotations over the buffered annotations anns, from
\* the i-th on; x is the expression annotated so far.
attach_loop(p, x, anns, i) ==
    IF i > Len(anns) THEN [p |-> p, expr |-> x]
    ELSE attach_lexed(p, x, anns, i, lex(anns[i].text))

attach_annotations(p, e) ==
    IF p.buffered_annotations = <<>>
    THEN [p |-> p, expr |-> with_range(e, range(p)[1], range(p)[2])]
    ELSE attach_loop([p EXCEPT !.buffered_annotations = <<>>],
                     with_range(e, range(p)[1], range(p)[2]),
                     p.buffered_annotations, 1)

\* The Quote arm once the quoted expression is parsed.
parse_quote(r, quot_expr) ==
    IF quot_expr.res.tag = "Err" \/ quot_expr.res.expr = <<>>
    THEN ParseOk(push_error(quot_expr.p, "InvalidQuote", r), <<>>)
    ELSE ParseOk(quot_expr.p,
                 <<ExprList(<<Bare(ExprSymbol("quot")), Bare(quot_expr.res.expr[1])>>)>>)

\* The delimiter that closes what the token t opens.
closing(t) ==
    CASE t = "LeftParen" -> "RightParen"
      [] t = "LeftBracket" -> "RightBracket"
      [] t = "LeftBrace" -> "RightBrace"

\* parse_collection that makes a List of no term.
parse_collection_list(t, terms) ==
    IF terms.res.tag = "Err" THEN ParseErr(terms.p)
    ELSE ParseOk(terms.p, <<ExprList(terms.res.exprs)>>)

\* The LeftParen, LeftBracket and LeftBrace arms once parse_many returned
\* terms.
parse_collection(t, terms) ==
    IF terms.res.tag = "Err" THEN ParseErr(terms.p)
    ELSE CASE t = "LeftParen" ->
                  IF terms.res.exprs = <<>> THEN ParseOk(terms.p, <<ExprOne>>)
                  ELSE ParseOk(terms.p, <<ExprList(terms.res.exprs)>>)
           [] t = "LeftBracket" ->
                  ParseOk(terms.p,
                          <<ExprArray([i \in 1..Len(terms.res.exprs) |->
                                           terms.res.exprs[i].e])>>)
           [] t = "LeftBrace" ->
                  IF Len(terms.res.exprs) % 2 = 1
                  THEN ParseErr([terms.p EXCEPT !.panicked = TRUE])
                  ELSE ParseOk(terms.p, <<ExprDict(dict_of(terms.res.exprs))>>)

\* The match of parse_expr on the token read.  The lexer of src/src/lexer.rs
\* emits the value of a Number, which becomes the Int; its If and Using
\* tokens have no arm.
parse_token(p, token) ==
    CASE token.t = "Comment" -> ParseOk(p, <<>>)
      [] token.t = "String" -> ParseOk(p, <<ExprString(to_string(token.text))>>)
      [] token.t = "Symbol" -> ParseOk(p, <<parse_symbol(token.text)>>)
      [] token.t = "Number" -> ParseOk(p, <<ExprInt(token.n)>>)
      [] token.t = "Annotation" ->
             ParseOk([p EXCEPT !.buffered_annotations =
                                   Append(@, [text |-> token.text, range |-> token.range])],
                     <<>>)
      [] token.t = "Quote" -> parse_quote(token.range, parse_expr(p))
      [] token.t \in {"LeftParen", "LeftBracket", "LeftBrace"} ->
             parse_collection(token.t,
                              parse_many([p EXCEPT !.start = token.range[1]],
                                         closing(token.t)))
      [] token.t \in {"RightParen", "RightBracket", "RightBrace"} ->
             ParseOk(push_error(p, "UnexpectedToken", token.range), <<>>)

\* parse_expr once next_token returned n.
parse_next(n) == IF n.tok = <<>> THEN ParseErr(n.p) ELSE parse_token(n.p, n.tok[1])

\* The result holds zero or one expression, or the non-recoverable error.
parse_expr(p) == parse_next(next_token(p))

\* parse_many once attach_annotations returned a.
parse_many_push(a, delimiter, exprs) ==
    IF a.p.panicked THEN [p |-> a.p, res |-> [tag |-> "Err"]]
    ELSE parse_many_loop(a.p, delimiter, Append(exprs, a.expr))

\* parse_many once parse_expr returned e.
parse_many_expr(e, delimiter, exprs) ==
    IF e.res.tag = "Err" THEN [p |-> e.p, res |-> [tag |-> "Err"]]
    ELSE IF e.res.expr = <<>> THEN parse_many_loop(e.p, delimiter, exprs)
    ELSE parse_many_push(attach_annotations(e.p, e.res.expr[1]), delimiter, exprs)

\* parse_many once next_token returned n.
parse_many_next(n, delimiter, exprs) ==
    IF n.tok = <<>>
    THEN [p |-> push_error(n.p, "UnterminatedList", range(n.p)), res |-> [tag |-> "Err"]]
    ELSE IF n.tok[1].t = delimiter
    THEN [p |-> n.p, res |-> [tag |-> "Ok", exprs |-> exprs]]
    ELSE parse_many_expr(parse_expr(put_back_token(n.p, n.tok[1])), delimiter, exprs)

parse_many_loop(p, delimiter, exprs) == parse_many_next(next_token(p), delimiter, exprs)

\* What parse returns once its loop is left.
parse_result(p, exprs) ==
    IF p.panicked THEN [tag |-> "Panic"]
    ELSE IF p.errors = <<>> THEN [tag |-> "Ok", exprs |-> exprs]
    ELSE [tag |-> "Err", errors |-> p.errors]

\* parse once attach_annotations returned a.
parse_push(a, exprs) ==
    IF ~a.p.panicked /\ a.p.errors = <<>> THEN parse_loop(a.p, Append(exprs, a.expr))
    ELSE parse_result(a.p, exprs)

\* parse once parse_expr returned e.
parse_step(e, exprs) ==
    IF e.res.tag = "Err" THEN parse_result(e.p, exprs)
    ELSE IF e.res.expr = <<>> THEN parse_loop(e.p, exprs)
    ELSE parse_push(attach_annotations(e.p, e.res.expr[1]), exprs)

parse_loop(p, exprs) == parse_step(parse_expr(p), exprs)

parse(tokens) == parse_loop(Parser_new(tokens), <<>>)

(***************************************************************************)
(* The text pipeline as a state machine: lex the input text, then parse its *)
(* tokens (lex_tokens and Parser::new(tokens).parse() of                    *)
(* src/tests/parser_test.rs).                                               *)
(***************************************************************************)
\* Bound on the length of the input texts typed character by character.
MaxText == 4

TextAlphabet == {"(", ")", " ", "a", "1", "-", "\"", "_", ";", "#"}

\* (a (b))
NestedText == <<"(", "a", " ", "(", "b", ")", ")">>

\* ((a) b)
NestedFirstText == <<"(", "(", "a", ")", " ", "b", ")">>

\* (let a -
UnexpectedEolText == <<"(", "l", "e", "t", " ", "a", " ", "-">>

\* (write "Hello)
UnterminatedStringText ==
    <<"(", "w", "r", "i", "t", "e", " ", "\"", "H", "e", "l", "l", "o", ")">>

\* (+ 1 3_000)
SeparatorText == <<"(", "+", " ", "1", " ", "3", "_", "0", "0", "0", ")">>

\* (let a 0xfe)
RadixText == <<"(", "l", "e", "t", " ", "a", " ", "0", "x", "f", "e", ")">>

\* #A a
TypeAnnotationText == <<"#", "A", " ", "a">>

\* #a #(a 1) a
OverwrittenAnnotationText == <<"#", "a", " ", "#", "(", "a", " ", "1", ")", " ", "a">>

\* #a a a
AnnotationOfFirstText == <<"#", "a", " ", "a", " ", "a">>

\* (a #b )
AnnotationAtEndText == <<"(", "a", " ", "#", "b", " ", ")">>

\* #b ;c
\* a
AnnotationCommentText == <<"#", "b", " ", ";", "c", "\n", "a">>

ExampleTexts ==
    {NestedText, NestedFirstText, UnexpectedEolText, UnterminatedStringText,
     SeparatorText, RadixText, TypeAnnotationText, OverwrittenAnnotationText,
     AnnotationOfFirstText, AnnotationAtEndText, AnnotationCommentText}

TextInit ==
    /\ env = <<setup_prelude>>
    /\ expr = Bare(ExprOne)
    /\ env0 = <<setup_prelude>>
    /\ result = NoResult
    /\ log = <<>>
    /\ input = <<>>
    /\ lexed = NoText
    /\ parsed = NoText
    /\ iter = NoIter
    /\ yielded = <<>>

\* One more character of the input text, before it is lexed.
TypeChar ==
    /\ lexed = NoText
    /\ Len(input) < MaxText
    /\ \E ch \in TextAlphabet : input' = Append(input, ch)
    /\ UNCHANGED <<lexed, parsed>>
    /\ UNCHANGED evalvars
    /\ UNCHANGED itervars

\* One of the example texts as the input text.
TakeExample ==
    /\ lexed = NoText
    /\ input = <<>>
    /\ input' \in ExampleTexts
    /\ UNCHANGED <<lexed, parsed>>
    /\ UNCHANGED evalvars
    /\ UNCHANGED itervars

LexText ==
    /\ lexed = NoText
    /\ lexed' = lex(input)
    /\ UNCHANGED <<input, parsed>>
    /\ UNCHANGED evalvars
    /\ UNCHANGED itervars

ParseTokens ==
    /\ lexed # NoText
    /\ lexed.tag = "Ok"
    /\ parsed = NoText
    /\ parsed' = parse(lexed.tokens)
    /\ UNCHANGED <<input, lexed>>
    /\ UNCHANGED evalvars
    /\ UNCHANGED itervars

TextNext == TypeChar \/ TakeExample \/ LexText \/ ParseTokens

TextSpec == TextInit /\ [][TextNext]_vars

(***************************************************************************)
(* The lexer run one iteration of its main loop at a time: while lex runs,  *)
(* lexed holds the lexer at the top of the loop and the tokens so far.      *)
(***************************************************************************)
\* Bound on the length of the input texts lexed one iteration at a time.
MaxStepText == 3

TypeStepChar ==
    /\ lexed = NoText
    /\ Len(input) < MaxStepText
    /\ \E ch \in TextAlphabet : input' = Append(input, ch)
    /\ UNCHANGED <<lexed, parsed>>
    /\ UNCHANGED evalvars
    /\ UNCHANGED itervars

\* Lexer::new(input) and the entry into the loop of lex.
StartLex ==
    /\ lexed = NoText
    /\ lexed' = LexRun(Lexer_new(input), <<>>)
    /\ UNCHANGED <<input, parsed>>
    /\ UNCHANGED evalvars
    /\ UNCHANGED itervars

LexStep ==
    /\ lexed.tag = "Run"
    /\ lexed' = lex_iteration(lexed.l, lexed.tokens)
    /\ UNCHANGED <<input, parsed>>
    /\ UNCHANGED evalvars
    /\ UNCHANGED itervars

StepNext == TypeStepChar \/ StartLex \/ LexStep

\* lex is a loop of one thread: once entered, its iterations go on.
LexStepSpec == TextInit /\ [][StepNext]_vars /\ WF_vars(LexStep)

(***************************************************************************)
(* The parser on the tokens of the whole token set.  parser.rs matches on   *)
(* Quote, LeftBracket, RightBracket, LeftBrace and RightBrace, for which    *)
(* src/src/lexer.rs has no arm; their tokens are written here from the      *)
(* lexeme rules of the language: one token per lexeme, with the offsets of  *)
(* the lexeme in the text as its range.                                      *)
(***************************************************************************)
RECURSIVE spec_lex(_)

\* Bound on the number of tokens pushed one by one.
MaxTokens == 4

TokenLexemes ==
    {<<"(">>, <<")">>, <<"[">>, <<"]">>, <<"{">>, <<"}">>, <<"'">>, <<"a">>, <<"1">>,
     <<"#", "a">>, <<";">>}

is_bracket(ch) == ch \in {"(", ")", "[", "]", "{", "}"}

\* The token of the lexeme that starts at offset start.
spec_token(lexeme, start) ==
    CASE lexeme[1] = "(" -> Token("LeftParen", <<>>, <<start, start + 1>>)
      [] lexeme[1] = ")" -> Token("RightParen", <<>>, <<start, start + 1>>)
      [] lexeme[1] = "[" -> Token("LeftBracket", <<>>, <<start, start + 1>>)
      [] lexeme[1] = "]" -> Token("RightBracket", <<>>, <<start, start + 1>>)
      [] lexeme[1] = "{" -> Token("LeftBrace", <<>>, <<start, start + 1>>)
      [] lexeme[1] = "}" -> Token("RightBrace", <<>>, <<start, start + 1>>)
      [] lexeme[1] = "'" -> Token("Quote", <<>>, <<start, start + 1>>)
      [] lexeme[1] = ";" -> Token("Comment", lexeme, <<start, start + Len(lexeme)>>)
      [] lexeme[1] = "#" -> Token("Annotation", Tail(lexeme), <<start, start + Len(lexeme)>>)
      [] is_numeric(lexeme[1]) ->
             NumberToken(from_str_radix(lexeme, 10).n, <<start, start + Len(lexeme)>>)
      [] OTHER -> Token("Symbol", lexeme, <<start, start + Len(lexeme)>>)

\* The white space that lets the lexeme start a new token after the text
\* lexed into tokens: the end of the line after a comment, nothing at the
\* start, next to a delimiter, after a quote or after white space, one blank
\* otherwise.
separator(text, tokens, lexeme) ==
    IF tokens = <<>> THEN <<>>
    ELSE IF tokens[Len(tokens)].t = "Comment" THEN <<"\n">>
    ELSE IF \/ is_bracket(lexeme[1])
            \/ is_bracket(text[Len(text)])
            \/ is_whitespace(text[Len(text)])
            \/ text[Len(text)] = "'"
    THEN <<>>
    ELSE <<" ">>

\* The text and its tokens with one more lexeme at the end of the text.
spec_append(text, tokens, lexeme) ==
    [input |-> text \o lexeme, tokens |-> Append(tokens, spec_token(lexeme, Len(text)))]

\* White space written as a lexeme is text without a token.
spec_push(s, lexeme) ==
    IF is_whitespace(lexeme[1]) THEN [input |-> s.input \o lexeme, tokens |-> s.tokens]
    ELSE spec_append(s.input \o separator(s.input, s.tokens, lexeme), s.tokens, lexeme)

\* The text and the tokens of a sequence of lexemes.
spec_lex(lexemes) ==
    IF lexemes = <<>> THEN [input |-> <<>>, tokens |-> <<>>]
    ELSE Let(LAMBDA s : spec_push(s, lexemes[Len(lexemes)]),
             spec_lex(SubSeq(lexemes, 1, Len(lexemes) - 1)))

\* (let a '' 1)
QuoteQuoteLexemes ==
    <<<<"(">>, <<"l", "e", "t">>, <<"a">>, <<"'">>, <<"'">>, <<" ">>, <<"1">>, <<")">>>>

ExampleLexemes == {QuoteQuoteLexemes}

TokenInit ==
    /\ env = <<setup_prelude>>
    /\ expr = Bare(ExprOne)
    /\ env0 = <<setup_prelude>>
    /\ result = NoResult
    /\ log = <<>>
    /\ input = <<>>
    /\ lexed = [tag |-> "Ok", tokens |-> <<>>]
    /\ parsed = NoText
    /\ iter = NoIter
    /\ yielded = <<>>

\* One more lexeme of the input text and its token.
PushToken ==
    /\ parsed = NoText
    /\ Len(lexed.tokens) < MaxTokens
    /\ \E lexeme \in TokenLexemes :
           \E s \in {spec_push([input |-> input, tokens |-> lexed.tokens], lexeme)} :
               /\ input' = s.input
               /\ lexed' = [tag |-> "Ok", tokens |-> s.tokens]
    /\ UNCHANGED parsed
    /\ UNCHANGED evalvars
    /\ UNCHANGED itervars

\* The lexemes of one of the example texts as the input.
TakeLexemes ==
    /\ parsed = NoText
    /\ lexed.tokens = <<>>
    /\ \E lexemes \in ExampleLexemes :
           \E s \in {spec_lex(lexemes)} :
               /\ input' = s.input
               /\ lexed' = [tag |-> "Ok", tokens |-> s.tokens]
    /\ UNCHANGED parsed
    /\ UNCHANGED evalvars
    /\ UNCHANGED itervars

TokenNext == PushToken \/ TakeLexemes \/ ParseTokens

TokenSpec == TokenInit /\ [][TokenNext]_vars

(***************************************************************************)
(* Ann<Expr>::iter: a depth-first iterator over the List nodes of an        *)
(* expression.  The expression iterated is expr; it is grown node by node   *)
(* before iter() is called on it.                                           *)
(***************************************************************************)
RECURSIVE ExprIter_next(_)
RECURSIVE Size(_)
RECURSIVE Positioned(_, _)

\* Bound on the number of nodes of the expression iterated.
MaxNodes == 5

\* A list that Array, Dict, If and Func nodes hold inside.
InnerList == ExprList(<<Bare(ExprInt(2))>>)

\* The nodes that are not List nodes.
IterLeaves ==
    {ExprInt(1),
     ExprArray(<<InnerList>>),
     ExprDict([a |-> InnerList]),
     ExprIf(Bare(ExprBool(TRUE)), Bare(InnerList), <<Bare(InnerList)>>),
     ExprFunc(<<Bare(ExprSymbol("x"))>>, Bare(InnerList))}

IsList(x) == x.e.k = "List"

\* The number of nodes of x reachable through List children.
Size(x) ==
    IF ~IsList(x) \/ x.e.v = <<>> THEN 1
    ELSE Size(Bare(ExprList(Tail(x.e.v)))) + Size(x.e.v[1])

\* x with the position of every node reachable through List children kept
\* in the annotations of the node, as a parsed expression keeps its range.
Positioned(x, path) ==
    IF IsList(x)
    THEN Ann(ExprList([i \in 1..Len(x.e.v) |-> Positioned(x.e.v[i], Append(path, ExprInt(i)))]),
             [range |-> ExprArray(path)])
    ELSE Ann(x.e, [range |-> ExprArray(path)])

\* iter(): an iterator on the slice that holds the expression alone.
ExprIter_new(x) == [children |-> <<x>>, parent |-> <<>>]

\* next_list that forgets the rest of the slice the list is in.
next_list_forgets(it) == [children |-> it.children[1].e.v, parent |-> it.parent]

\* The List arm of next: the iterator moves into the children of the list
\* and keeps the rest of the slice in its parent.
next_list(it) ==
    [children |-> it.children[1].e.v,
     parent |-> <<[children |-> Tail(it.children), parent |-> it.parent]>>]

\* The iterator after next() and the item returned, as a sequence that is
\* empty for None.
ExprIter_next(it) ==
    IF it.children = <<>>
    THEN IF it.parent # <<>> THEN ExprIter_next(it.parent[1])
         ELSE [it |-> it, item |-> <<>>]
    ELSE IF IsList(it.children[1])
    THEN [it |-> next_list(it), item |-> <<it.children[1]>>]
    ELSE [it |-> [it EXCEPT !.children = Tail(@)], item |-> <<it.children[1]>>]

IterInit ==
    /\ env = <<setup_prelude>>
    /\ expr = Bare(ExprList(<<>>))
    /\ env0 = <<setup_prelude>>
    /\ result = NoResult
    /\ log = <<>>
    /\ input = <<>>
    /\ lexed = NoText
    /\ parsed = NoText
    /\ iter = NoIter
    /\ yielded = <<>>

\* The expression is one of the nodes that are not lists.
TakeLeaf ==
    /\ iter = NoIter
    /\ expr = Bare(ExprList(<<>>))
    /\ \E leaf \in IterLeaves : expr' = Bare(leaf)
    /\ UNCHANGED <<env, env0, result, log, iter, yielded>>
    /\ UNCHANGED textvars

\* One more node at the end or at the start of the list.
GrowLeaf ==
    /\ iter = NoIter
    /\ IsList(expr)
    /\ Size(expr) < MaxNodes
    /\ \E leaf \in IterLeaves \cup {ExprList(<<>>)} :
           \/ expr' = Bare(ExprList(Append(expr.e.v, Bare(leaf))))
           \/ expr' = Bare(ExprList(<<Bare(leaf)>> \o expr.e.v))
    /\ UNCHANGED <<env, env0, result, log, iter, yielded>>
    /\ UNCHANGED textvars

\* The expression becomes the only node of a new list.
GrowList ==
    /\ iter = NoIter
    /\ Size(expr) < MaxNodes
    /\ expr' = Bare(ExprList(<<expr>>))
    /\ UNCHANGED <<env, env0, result, log, iter, yielded>>
    /\ UNCHANGED textvars

\* expr.iter(), on the expression with its positions.
StartIter ==
    /\ iter = NoIter
    /\ expr' = Positioned(expr, <<>>)
    /\ iter' = [tag |-> "Iter", it |-> ExprIter_new(Positioned(expr, <<>>)), returned |-> "New"]
    /\ UNCHANGED <<env, env0, result, log, yielded>>
    /\ UNCHANGED textvars

\* One call of next(), until it returns None.
IterNext ==
    /\ iter.tag = "Iter"
    /\ iter.returned # "None"
    /\ \E n \in {ExprIter_next(iter.it)} :
           /\ iter' = [tag |-> "Iter", it |-> n.it,
                       returned |-> IF n.item = <<>> THEN "None" ELSE "Some"]
           /\ yielded' = yielded \o n.item
    /\ UNCHANGED evalvars
    /\ UNCHANGED textvars

IterateNext == TakeLeaf \/ GrowLeaf \/ GrowList \/ StartIter \/ IterNext

\* The caller of the iterator goes on calling next() until None.
IterSpec == IterInit /\ [][IterateNext]_vars /\ WF_vars(IterNext)

(***************************************************************************)
(* Parenthesised forms: the texts of parentheses and atoms are lexed and    *)
(* parsed, and an empty List that no text parses to is built and            *)
(* evaluated.                                                               *)
(***************************************************************************)
FormAlphabet == {"(", ")", " ", "a", "1"}

\* One more character of a text of parentheses and atoms.
TypeFormChar ==
    /\ lexed = NoText
    /\ Len(input) < MaxText
    /\ \E ch \in FormAlphabet : input' = Append(input, ch)
    /\ UNCHANGED <<lexed, parsed>>
    /\ UNCHANGED evalvars
    /\ UNCHANGED itervars

\* Expr::List(Vec::new()), bare and with a range.
EmptyListPrograms == {Bare(ExprList(<<>>)), with_range(ExprList(<<>>), 0, 2)}

EvalEmptyList == \E x \in EmptyListPrograms : Evaluate(x)

UnitNext ==
    TypeFormChar \/ TakeExample \/ LexText \/ ParseTokens \/ EvalEmptyList \/ Return

UnitSpec == TextInit /\ [][UnitNext]_vars

(***************************************************************************)
(* Observers of the text pipeline.                                          *)
(***************************************************************************)
RECURSIVE Contained(_)

Lexed == lexed # NoText

LexedOk == Lexed /\ lexed.tag = "Ok"

LexedErr == Lexed /\ lexed.tag = "Err"

ParsedOk == parsed # NoText /\ parsed.tag = "Ok"

\* The characters of text from offset s up to offset e, e excluded.
Slice(text, s, e) == SubSeq(text, s + 1, e)

\* The children of a parsed expression that carry a range.
Children(x) == IF x.e.k = "List" THEN x.e.v ELSE <<>>

\* x and every expression below it has a range that holds the ranges of its
\* children.
Contained(x) ==
    LET r == get_range(x)
    IN /\ r # NoRange
       /\ r[1] <= r[2]
       /\ \A i \in 1..Len(Children(x)) :
              LET c == get_range(Children(x)[i])
              IN /\ c # NoRange
                 /\ r[1] <= c[1] /\ c[1] <= c[2] /\ c[2] <= r[2]
                 /\ Contained(Children(x)[i])

\* The input is one expression and nothing else: no comment, no annotation,
\* no white space at either end, and one parsed expression.
WholeText ==
    /\ ParsedOk
    /\ Len(parsed.exprs) = 1
    /\ input # <<>>
    /\ ~is_whitespace(input[1])
    /\ ~is_whitespace(input[Len(input)])
    /\ \A i \in 1..Len(input) : input[i] \notin {";", "#"}

\* C17: every expression the parser returns has a range that covers its
\* whole text, from its first token to its last, and every child c of an
\* expression e has e.start <= c.start <= c.end <= e.end.
RangeContainment ==
    ParsedOk =>
        /\ \A i \in 1..Len(parsed.exprs) : Contained(parsed.exprs[i])
        /\ WholeText =>
               /\ get_range(parsed.exprs[1])[1] <= 0
               /\ Len(input) <= get_range(parsed.exprs[1])[2]

\* The text that a token other than a Number stands for.
Lexeme(token) ==
    CASE token.t = "LeftParen" -> <<"(">>
      [] token.t = "RightParen" -> <<")">>
      [] token.t = "String" -> <<"\"">> \o token.text \o <<"\"">>
      [] token.t = "Annotation" -> <<"#">> \o token.text
      [] token.t = "If" -> <<"i", "f">>
      [] token.t = "Using" -> <<"u", "s", "i", "n", "g">>
      [] OTHER -> token.text

\* The value of a number written as text, without its `_` and radix prefix.
NumberOf(text) ==
    LET lexeme == SelectSeq(text, LAMBDA ch : ch # "_")
    IN IF starts_with(lexeme, "0", "x") THEN from_str_radix(replace_prefix(lexeme, "0", "x"), 16)
       ELSE IF starts_with(lexeme, "0", "b") THEN from_str_radix(replace_prefix(lexeme, "0", "b"), 2)
       ELSE from_str_radix(lexeme, 10)

InText(r) == 0 <= r[1] /\ r[1] <= r[2] /\ r[2] <= Len(input)

TokenMatchesText(token) ==
    /\ InText(token.range)
    /\ LET text == Slice(input, token.range[1], token.range[2])
       IN IF token.t = "Number"
          THEN NumberOf(text) = [ok |-> TRUE, n |-> token.n]
          ELSE text = Lexeme(token)

\* C18: the range of every token the lexer emits lies within the input and
\* the input text at that range is the lexeme of the token, for a number up
\* to its `_` and radix prefix; also for delimiters and at the end of the
\* input.
TokenRanges ==
    LexedOk => \A i \in 1..Len(lexed.tokens) : TokenMatchesText(lexed.tokens[i])

RECURSIVE LexemeFrom(_)

\* The characters of the input from offset k up to the next white space or
\* delimiter.
LexemeFrom(k) ==
    IF k >= Len(input) THEN <<>>
    ELSE IF is_whitespace(input[k + 1]) \/ is_delimiter(input[k + 1]) THEN <<>>
    ELSE <<input[k + 1]>> \o LexemeFrom(k + 1)

\* The token, which is not a delimiter, starts at a `-` of the input.
StartsWithMinus(token) ==
    /\ token.t \notin {"LeftParen", "RightParen"}
    /\ token.range[1] < Len(input)
    /\ input[token.range[1] + 1] = "-"

\* The `-` at offset k is directly followed by a digit.
DigitAfter(k) == k + 2 <= Len(input) /\ is_numeric(input[k + 2])

\* A token that starts with `-` is a Number of the lexeme with its `-` when
\* a digit follows, and else a Symbol of the lexeme with its `-`.
MinusTokens ==
    LexedOk =>
        \A i \in 1..Len(lexed.tokens) :
            LET token == lexed.tokens[i]
                k == token.range[1]
            IN StartsWithMinus(token) =>
                   IF DigitAfter(k)
                   THEN /\ token.t = "Number"
                        /\ token.n = NumberOf(LexemeFrom(k)).n
                        /\ token.n <= 0
                   ELSE /\ token.t = "Symbol"
                        /\ token.text = LexemeFrom(k)

\* A text that starts with `-` and goes on is lexed from that `-`: its first
\* token starts there.  A malformed number that starts at a `-` has a digit
\* after the `-`.
MinusStarts ==
    /\ (LexedOk /\ Len(input) >= 2 /\ input[1] = "-") =>
           lexed.tokens # <<>> /\ lexed.tokens[1].range[1] = 0
    /\ (LexedErr /\ lexed.err.kind = "NumberError"
            /\ input[lexed.err.range[1] + 1] = "-") =>
           DigitAfter(lexed.err.range[1])

\* UnexpectedEol is reported at the offset of the `-` that ends the input.
MinusAtEnd ==
    /\ (LexedErr /\ lexed.err.kind = "UnexpectedEol") =>
           /\ input[Len(input)] = "-"
           /\ lexed.err.range[1] = Len(input) - 1
    /\ (Lexed /\ input = UnexpectedEolText) =>
           LexedErr /\ lexed.err.kind = "UnexpectedEol" /\ lexed.err.range[1] = 7

\* C19: a `-` directly followed by a digit starts a Number token whose
\* lexeme includes the `-`; a `-` followed by any other character starts a
\* Symbol token that includes the `-`; a `-` that ends the input makes lex
\* return UnexpectedEol with a range at the offset of that `-`.
LeadingMinus == MinusTokens /\ MinusStarts /\ MinusAtEnd

RECURSIVE LexemesOf(_)

\* The text of a token in the input; a Number token holds its value only,
\* so its text is read from the input.
TokenText(token) ==
    IF token.t = "Number" THEN LexemeFrom(token.range[1]) ELSE Lexeme(token)

\* The texts of the tokens, one after the other.
LexemesOf(tokens) ==
    IF tokens = <<>> THEN <<>> ELSE TokenText(Head(tokens)) \o LexemesOf(Tail(tokens))

WithoutWhitespace(text) == SelectSeq(text, LAMBDA ch : ~is_whitespace(ch))

\* The offset where the lexeme in error starts; UnexpectedEol is raised for
\* the `-` that ends the input.
ErrorStart(err) ==
    IF err.kind = "UnexpectedEol" THEN Len(input) - 1 ELSE err.range[1]

\* lex returns the tokens or the error, never both.
TokensOrError ==
    Lexed => \/ lexed.tag = "Ok" /\ DOMAIN lexed = {"tag", "tokens"}
             \/ lexed.tag = "Err" /\ DOMAIN lexed = {"tag", "err"}

\* The tokens returned are all the tokens: their texts are the input without
\* its white space.
AllTokens ==
    LexedOk => WithoutWhitespace(LexemesOf(lexed.tokens)) = WithoutWhitespace(input)

\* The error returned is the first one: the input before the lexeme in error
\* has no lexical error, and the input from that lexeme on fails at once with
\* the same error.
FirstError ==
    LexedErr =>
        LET k == ErrorStart(lexed.err)
            before == lex(Slice(input, 0, k))
            after == lex(Slice(input, k, Len(input)))
        IN /\ 0 <= k /\ k < Len(input)
           /\ before.tag = "Ok"
           /\ after.tag = "Err"
           /\ after.err.kind = lexed.err.kind
           /\ after.err.range = <<lexed.err.range[1] - k, lexed.err.range[2] - k>>

\* A `"` opens a string at offset k: it follows white space, a delimiter or
\* nothing, outside any comment or annotation, and the input before it has
\* no lexical error.
OpensString(k) ==
    /\ input[k + 1] = "\""
    /\ k > 0 => is_whitespace(input[k]) \/ is_delimiter(input[k])
    /\ \A j \in 1..k : input[j] \notin {";", "#"}
    /\ lex(Slice(input, 0, k)).tag = "Ok"

NoQuoteAfter(k) == \A j \in (k + 2)..Len(input) : input[j] # "\""

\* A `"` with no later `"` yields UnterminatedString from the offset of the
\* `"` to the length of the input.
UnterminatedString ==
    /\ (LexedErr /\ lexed.err.kind = "UnterminatedStringError") =>
           /\ input[lexed.err.range[1] + 1] = "\""
           /\ NoQuoteAfter(lexed.err.range[1])
           /\ lexed.err.range[2] = Len(input)
    /\ Lexed =>
           \A k \in 0..(Len(input) - 1) :
               (OpensString(k) /\ NoQuoteAfter(k)) =>
                   lexed = [tag |-> "Err",
                            err |-> [kind |-> "UnterminatedStringError",
                                     range |-> <<k, Len(input)>>]]
    /\ (Lexed /\ input = UnterminatedStringText) => lexed.err.range = <<7, 14>>

\* C20: lex returns either all tokens or exactly the first lexical error in
\* input order, and no token with an error; a `"` with no later `"` yields
\* UnterminatedString whose range starts at the offset of the opening `"`
\* and ends at the length of the input.
LexicalErrors == TokensOrError /\ AllTokens /\ FirstError /\ UnterminatedString

\* The lexer gave up (write "Hello) at its unterminated string, after the
\* tokens of (write.
LexicalErrorsWitness ==
    /\ input = UnterminatedStringText
    /\ LexedErr
    /\ lexed.err.kind = "UnterminatedStringError"
    /\ Len(lex(Slice(input, 0, ErrorStart(lexed.err))).tokens) = 2

\* The characters the lexer will read next: those put back, the last put
\* back first, then those not yet read.
Pending(l) == [i \in 1..Len(l.lookahead) |-> l.lookahead[Len(l.lookahead) + 1 - i]] \o l.chars

Remaining(l) == Len(l.lookahead) + Len(l.chars)

LexRunning == lexed.tag = "Run"

LexReturned == lexed.tag \in {"Ok", "Err"}

\* What the lexer has still to read is the end of the input: nothing put
\* back is lost, doubled or out of order.
PendingIsSuffix ==
    LexRunning =>
        Pending(lexed.l) = Slice(input, Len(input) - Remaining(lexed.l), Len(input))

\* The text read by the iteration that went from lexer l to lexer l2.
TextRead(l, l2) == Slice(input, Len(input) - Remaining(l), Len(input) - Remaining(l2))

\* The token is what the characters read spell, in their order.
TokenOfText(token, text) ==
    CASE token.t = "Number" -> NumberOf(text) = [ok |-> TRUE, n |-> token.n]
      [] token.t = "Comment" -> text \in {token.text, token.text \o <<"\n">>}
      [] OTHER -> text = Lexeme(token)

\* An iteration of the main loop that does not return reads at least one
\* character more than it puts back, and it pushes the token of the text it
\* read or skips one white space.
IterationProgress ==
    (LexRunning /\ lexed'.tag = "Run") =>
        /\ Remaining(lexed'.l) < Remaining(lexed.l)
        /\ IF lexed'.tokens = lexed.tokens
           THEN /\ Len(TextRead(lexed.l, lexed'.l)) = 1
                /\ is_whitespace(TextRead(lexed.l, lexed'.l)[1])
           ELSE /\ Len(lexed'.tokens) = Len(lexed.tokens) + 1
                /\ TokenOfText(lexed'.tokens[Len(lexed'.tokens)],
                               TextRead(lexed.l, lexed'.l))

\* lex returns the tokens or one error.
LexReturnsOnce ==
    LexReturned => \/ lexed.tag = "Ok" /\ DOMAIN lexed = {"tag", "tokens"}
                   \/ lexed.tag = "Err" /\ DOMAIN lexed = {"tag", "err"}

\* C21: for every finite input lex terminates and returns a token vector or
\* one lexical error; every iteration of the main loop makes net progress
\* through the input although characters are put back, and the characters
\* put back are read again in their original order.
LexerTermination ==
    /\ [](PendingIsSuffix /\ LexReturnsOnce)
    /\ [][IterationProgress]_vars
    /\ (LexRunning ~> LexReturned)

\* The lexer is at the top of its loop with a token pushed and a character
\* put back.
LexerTerminationWitness ==
    /\ LexRunning
    /\ lexed.tokens # <<>>
    /\ lexed.l.lookahead # <<>>
    /\ lexed.l.chars # <<>>

(***************************************************************************)
(* Claims on the parser.                                                    *)
(***************************************************************************)
\* parse() was called.
Parsed == parsed # NoText

\* parse() returned; it does not return when it panics.
ParseReturned == Parsed /\ parsed.tag \in {"Ok", "Err"}

ParsedErr == Parsed /\ parsed.tag = "Err"

IsClosing(token) == token.t \in {"RightParen", "RightBracket", "RightBrace"}

\* The number of closing delimiters the tokens start with.
LeadingClosing ==
    CHOOSE k \in 0..Len(lexed.tokens) :
        /\ \A i \in 1..k : IsClosing(lexed.tokens[i])
        /\ k < Len(lexed.tokens) => ~IsClosing(lexed.tokens[k + 1])

UnexpectedTokenAt(token) == [kind |-> "UnexpectedToken", range |-> token.range]

\* Each of the closing delimiters the tokens start with is recorded with
\* its range, one after the other, and parse returns them in Err.
ClosingRecorded ==
    (ParseReturned /\ LeadingClosing > 0) =>
        /\ ParsedErr
        /\ Len(parsed.errors) >= LeadingClosing
        /\ \A i \in 1..LeadingClosing :
               parsed.errors[i] = UnexpectedTokenAt(lexed.tokens[i])

\* A closing delimiter that is the whole input is reported at 0..1.
ClosingAlone ==
    (ParseReturned /\ Len(input) = 1 /\ LeadingClosing = 1) =>
        /\ ParsedErr
        /\ parsed.errors = <<[kind |-> "UnexpectedToken", range |-> <<0, 1>>]>>

\* parse returns Ok without errors or Err with at least one error.
OkOrErrors ==
    ParseReturned =>
        \/ parsed.tag = "Ok" /\ DOMAIN parsed = {"tag", "exprs"} /\ LeadingClosing = 0
        \/ parsed.tag = "Err" /\ parsed.errors # <<>>

\* C22: a closing delimiter met where an expression is expected records an
\* UnexpectedToken error with the range of that token, 0..1 when the token
\* is the whole input, parsing goes on with the next token and parse returns
\* Err with that error; parse returns Ok only without errors and an Err
\* batch is never empty.
UnexpectedClosing == ClosingRecorded /\ ClosingAlone /\ OkOrErrors

\* The token starts an expression other than a quoted one.
StartsExpression(token) ==
    token.t \in {"String", "Symbol", "Number", "LeftParen", "LeftBracket", "LeftBrace"}

\* The token yields no expression.
YieldsNothing(token) == token.t \in {"Comment", "Annotation"} \/ IsClosing(token)

LeadingQuote == lexed.tokens # <<>> /\ lexed.tokens[1].t = "Quote"

HasError(kind, r) ==
    ParsedErr /\ \E i \in 1..Len(parsed.errors) : parsed.errors[i] = [kind |-> kind, range |-> r]

\* The quote of the expression e.
Quoted(e) == ExprList(<<Bare(ExprSymbol("quot")), Bare(e)>>)

\* What follows the leading quote parses to expressions.
QuoteTargets(rest) == rest.tag = "Ok" /\ rest.exprs # <<>>

\* A quote before an expression E parses to the list (quot E), in place of E.
QuotedExpression ==
    (/\ ParseReturned
     /\ LeadingQuote
     /\ Len(lexed.tokens) >= 2
     /\ StartsExpression(lexed.tokens[2])
     /\ QuoteTargets(parse(Tail(lexed.tokens)))) =>
        /\ parsed.tag = "Ok"
        /\ Len(parsed.exprs) = Len(parse(Tail(lexed.tokens)).exprs)
        /\ parsed.exprs[1].e = Quoted(parse(Tail(lexed.tokens)).exprs[1].e)
        /\ Len(parsed.exprs[1].e.v) = 2

\* A quote at the end of the input or before something that yields no
\* expression records InvalidQuote with the range of the quote.
QuoteOfNothing ==
    (/\ ParseReturned
     /\ LeadingQuote
     /\ Len(lexed.tokens) >= 2 => YieldsNothing(lexed.tokens[2])) =>
        HasError("InvalidQuote", lexed.tokens[1].range)

\* The i-th token is the first of two quotes in a row.
QuoteQuoteAt(i) ==
    /\ i + 1 <= Len(lexed.tokens)
    /\ lexed.tokens[i].t = "Quote"
    /\ lexed.tokens[i + 1].t = "Quote"

\* Two quotes in a row are an error at the first quote.
QuoteQuote ==
    /\ (ParseReturned /\ QuoteQuoteAt(1)) =>
           ParsedErr /\ \E i \in 1..Len(parsed.errors) :
                            parsed.errors[i].range = lexed.tokens[1].range
    /\ (ParseReturned /\ lexed.tokens = spec_lex(QuoteQuoteLexemes).tokens) =>
           ParsedErr /\ \E i \in 1..Len(parsed.errors) : parsed.errors[i].range = <<7, 8>>

\* C23: a quote followed by an expression E parses to the two-element list
\* (quot E); a quote at the end of the input or followed by something that
\* yields no expression records InvalidQuote with the range of that quote;
\* a quote directly followed by another quote is a parse error whose range
\* is that of the first quote, 7..8 for (let a '' 1).
QuoteParses == QuotedExpression /\ QuoteOfNothing /\ QuoteQuote

\* The number of annotation tokens the tokens start with.
LeadingAnnotations ==
    CHOOSE k \in 0..Len(lexed.tokens) :
        /\ \A i \in 1..k : lexed.tokens[i].t = "Annotation"
        /\ k < Len(lexed.tokens) => lexed.tokens[k + 1].t # "Annotation"

IsAtom(token) == token.t \in {"Symbol", "Number", "String"}

\* The tokens are annotations and then one or two atoms.
AnnotatedAtom ==
    /\ Parsed
    /\ LeadingAnnotations >= 1
    /\ Len(lexed.tokens) - LeadingAnnotations \in {1, 2}
    /\ \A i \in (LeadingAnnotations + 1)..Len(lexed.tokens) : IsAtom(lexed.tokens[i])

\* The expressions the body of the annotation token a parses to, none when
\* the body does not lex or does not parse.
Body(a) ==
    IF lex(a.text).tag # "Ok" THEN <<>>
    ELSE IF parse(lex(a.text).tokens).tag # "Ok" THEN <<>>
    ELSE parse(lex(a.text).tokens).exprs

IsSymbolBody(a) == Body(a) # <<>> /\ Body(a)[1].e.k = "Symbol"

IsListBody(a) ==
    /\ Body(a) # <<>>
    /\ Body(a)[1].e.k = "List"
    /\ Body(a)[1].e.v[1].e.k = "Symbol"

WellFormed(a) == IsSymbolBody(a) \/ IsListBody(a)

\* The key an annotation is stored under and the value stored.
KeyOf(a) ==
    IF IsListBody(a) THEN Body(a)[1].e.v[1].e.v
    ELSE IF is_uppercase(a.text[1]) THEN "type"
    ELSE Body(a)[1].e.v

ValueOf(a) ==
    IF IsListBody(a) \/ is_uppercase(a.text[1]) THEN Body(a)[1].e ELSE ExprBool(TRUE)

\* The last of the leading annotations stored under key.
LastWrite(key) ==
    CHOOSE i \in 1..LeadingAnnotations :
        /\ KeyOf(lexed.tokens[i]) = key
        /\ \A j \in (i + 1)..LeadingAnnotations : KeyOf(lexed.tokens[j]) # key

AnnotationKeys == {KeyOf(lexed.tokens[i]) : i \in 1..LeadingAnnotations}

\* Well-formed annotations are all stored on the expression that follows
\* them, the last write to a key kept, and on no expression after it.
AllAttached ==
    (AnnotatedAtom /\ \A i \in 1..LeadingAnnotations : WellFormed(lexed.tokens[i])) =>
        /\ parsed.tag = "Ok"
        /\ Len(parsed.exprs) = Len(lexed.tokens) - LeadingAnnotations
        /\ DOMAIN parsed.exprs[1].ann = AnnotationKeys \cup {"range"}
        /\ \A key \in AnnotationKeys :
               parsed.exprs[1].ann[key] = ValueOf(lexed.tokens[LastWrite(key)])
        /\ \A i \in 2..Len(parsed.exprs) : DOMAIN parsed.exprs[i].ann = {"range"}

\* The first of the leading annotations with another body.
FirstMalformed ==
    CHOOSE i \in 1..LeadingAnnotations :
        /\ ~WellFormed(lexed.tokens[i])
        /\ \A j \in 1..(i - 1) : WellFormed(lexed.tokens[j])

\* Any other body is recorded as MalformedAnnotation at the annotation and
\* parse returns.
MalformedRecorded ==
    (AnnotatedAtom /\ \E i \in 1..LeadingAnnotations : ~WellFormed(lexed.tokens[i])) =>
        HasError("MalformedAnnotation", lexed.tokens[FirstMalformed].range)

\* C24: the annotations buffered since the last parsed expression are all
\* consumed by the next parsed expression; a body that is a Symbol starting
\* with an uppercase letter is stored under the key type, a lower-case Symbol
\* s under the key s with the value Bool(true), a List with head Symbol(k)
\* under the key k, a later write to a key overwriting an earlier one; every
\* other body, an empty one included, records a recoverable
\* MalformedAnnotation error and parsing goes on without aborting.
AnnotationAttachment == AllAttached /\ MalformedRecorded

(***************************************************************************)
(* Claims on the iteration of expressions.                                  *)
(***************************************************************************)
RECURSIVE PreOrder(_)
RECURSIVE PreOrderOf(_)

\* The nodes of x in depth-first pre-order: x, then each child of a List in
\* order, each followed at once by its own descendants.
PreOrder(x) == IF IsList(x) THEN <<x>> \o PreOrderOf(x.e.v) ELSE <<x>>

PreOrderOf(xs) == IF xs = <<>> THEN <<>> ELSE PreOrder(xs[1]) \o PreOrderOf(Tail(xs))

Iterating == iter.tag = "Iter"

IterationDone == Iterating /\ iter.returned = "None"

\* What was yielded so far is the start of the pre-order, the root first.
YieldedInOrder ==
    Iterating =>
        /\ Len(yielded) <= Len(PreOrder(expr))
        /\ yielded = SubSeq(PreOrder(expr), 1, Len(yielded))
        /\ yielded # <<>> => yielded[1] = expr

\* At the end every node reachable through List children was yielded
\* exactly once, and nothing else.
YieldedOnce ==
    IterationDone =>
        /\ yielded = PreOrder(expr)
        /\ Len(yielded) = Size(expr)
        /\ \A i, j \in 1..Len(yielded) : yielded[i] = yielded[j] => i = j
        /\ \A i \in 1..Len(yielded) : yielded[i].e # InnerList

\* C25: iterating an Ann<Expr> yields the root first and then, for every
\* List node, its children in order, each child followed at once by its own
\* descendants; every node reachable through List children is yielded
\* exactly once, the contents of Array, Dict, If and Func nodes are not
\* entered, and the iteration terminates.
ExpressionIteration ==
    /\ [](YieldedInOrder /\ YieldedOnce)
    /\ (Iterating ~> IterationDone)

\* The iteration of a list in a list is over, past a node whose contents
\* are not entered.
ExpressionIterationWitness ==
    /\ IterationDone
    /\ Len(yielded) = MaxNodes
    /\ \E i \in 2..Len(yielded) : IsList(yielded[i]) /\ yielded[i].e.v # <<>>
    /\ \E i \in 1..Len(yielded) : yielded[i].e.k = "Func"

(***************************************************************************)
(* Claims on parenthesised forms.                                           *)
(***************************************************************************)
RECURSIVE Strip(_)
RECURSIVE ReadLoop(_, _, _)
RECURSIVE Depths(_, _, _)

\* The expression without its annotations and those of its terms.
Strip(x) ==
    IF x.e.k = "List" THEN Bare(ExprList([i \in 1..Len(x.e.v) |-> Strip(x.e.v[i])]))
    ELSE Bare(x.e)

IsParen(token) == token.t \in {"LeftParen", "RightParen"}

\* The nesting depth after each of the tokens from the i-th on, from depth d.
Depths(tokens, i, d) ==
    IF i > Len(tokens) THEN <<>>
    ELSE <<d + (IF tokens[i].t = "LeftParen" THEN 1
                ELSE IF tokens[i].t = "RightParen" THEN 0 - 1 ELSE 0)>>
         \o Depths(tokens, i + 1,
                   d + (IF tokens[i].t = "LeftParen" THEN 1
                        ELSE IF tokens[i].t = "RightParen" THEN 0 - 1 ELSE 0))

\* The tokens are atoms and parentheses that match.
PlainForms ==
    /\ LexedOk
    /\ \A i \in 1..Len(lexed.tokens) : IsAtom(lexed.tokens[i]) \/ IsParen(lexed.tokens[i])
    /\ \A i \in 1..Len(lexed.tokens) : Depths(lexed.tokens, 1, 0)[i] >= 0
    /\ lexed.tokens # <<>> => Depths(lexed.tokens, 1, 0)[Len(lexed.tokens)] = 0

\* The expression an atom is read as.
ReadAtom(token) ==
    CASE token.t = "Number" -> ExprInt(token.n)
      [] token.t = "String" -> ExprString(to_string(token.text))
      [] token.t = "Symbol" -> parse_symbol(token.text)

\* The forms read so far with one more term in the innermost open one.
WithTerm(open, x) == [open EXCEPT ![Len(open)] = Append(@, Bare(x))]

\* The forms the tokens from the i-th on are read as: () is One, every
\* other parenthesised form is the List of its terms in their order.  open
\* holds the terms read so far of each form not yet closed, the top level
\* first.
ReadLoop(tokens, i, open) ==
    IF i > Len(tokens) THEN open[1]
    ELSE IF tokens[i].t = "LeftParen" THEN ReadLoop(tokens, i + 1, Append(open, <<>>))
    ELSE IF tokens[i].t = "RightParen"
    THEN ReadLoop(tokens, i + 1,
                  WithTerm(SubSeq(open, 1, Len(open) - 1),
                           IF open[Len(open)] = <<>> THEN ExprOne
                           ELSE ExprList(open[Len(open)])))
    ELSE ReadLoop(tokens, i + 1, WithTerm(open, ReadAtom(tokens[i])))

\* The text () parses to One, and a text of atoms and parenthesised forms
\* to the List of the terms of each form in source order.
FormsParsed ==
    (Parsed /\ PlainForms) =>
        /\ parsed.tag = "Ok"
        /\ [i \in 1..Len(parsed.exprs) |-> Strip(parsed.exprs[i])]
               = ReadLoop(lexed.tokens, 1, <<<<>>>>)
        /\ input = <<"(", ")">> => parsed.exprs[1].e = ExprOne

\* An empty List was evaluated.
EmptyListEvaluated == result # NoResult /\ expr.e = ExprList(<<>>)

\* The evaluation of the empty List returns One and leaves the env alone.
EmptyListIsOne ==
    EmptyListEvaluated =>
        /\ result.tag = "Ok"
        /\ result.val.e = ExprOne
        /\ env = env0
        /\ \A i \in 1..Len(log) : log[i].op \notin {"push", "pop", "insert"}

\* C26: the text () parses to One and not to an empty List, every non-empty
\* parenthesised form parses to a List of its terms in source order, and
\* the evaluation of an empty List built in the program returns One without
\* touching the env.
UnitIsOne == FormsParsed /\ EmptyListIsOne

\* (()) was parsed to the List of One, and the empty List was evaluated.
UnitIsOneWitness ==
    /\ ParsedOk
    /\ input = <<"(", "(", ")", ")">>
    /\ Len(parsed.exprs) = 1
    /\ parsed.exprs[1].e.k = "List"
    /\ Len(parsed.exprs[1].e.v) = 1
    /\ parsed.exprs[1].e.v[1].e = ExprOne
    /\ EmptyListEvaluated
    /\ result.tag = "Ok"

(***************************************************************************)
(* Claims on the scope stack during an evaluation.                          *)
(***************************************************************************)
RECURSIVE OpenScopes(_)

\* The scopes pushed and not yet popped after the first i events of the
\* log, each named by the event that pushed it, the innermost last.
OpenScopes(i) ==
    IF i = 0 THEN <<>>
    ELSE IF log[i].op = "push" THEN Append(OpenScopes(i - 1), i)
    ELSE IF log[i].op = "pop" /\ OpenScopes(i - 1) # <<>>
    THEN SubSeq(OpenScopes(i - 1), 1, Len(OpenScopes(i - 1)) - 1)
    ELSE OpenScopes(i - 1)

\* The depth of the scope stack is never below its depth at the start.
DepthKept ==
    result # NoResult =>
        /\ Len(env) >= Len(env0)
        /\ \A i \in 1..Len(log) : "d" \in DOMAIN log[i] => log[i].d >= Len(env0)

\* No pop removes a scope of the caller.
CallerScopesKept ==
    result # NoResult => \A i \in Events("pop") : OpenScopes(i - 1) # <<>>

\* Every pop removes the scope that the form executing it pushed.
PopsOwnScope ==
    result # NoResult =>
        \A i \in Events("pop") :
            /\ OpenScopes(i - 1) # <<>>
            /\ OpenScopes(i - 1)[Len(OpenScopes(i - 1))] = log[i].of

\* C27: in every state reachable during an evaluation that starts with an
\* env of depth d >= 1 the scope stack has depth >= d; every pop executed
\* by the evaluator removes a scope that the same form pushed earlier, so
\* the bottom scope and the scopes of the caller are never popped.
ScopeStack == DepthKept /\ PopsOwnScope /\ CallerScopesKept

(***************************************************************************)
(* Claims on let with several pairs.                                        *)
(***************************************************************************)
\* The expression evaluated is a let with at least two (name, value) pairs.
LetOfPairs ==
    /\ expr.e.k = "List"
    /\ Len(expr.e.v) >= 5
    /\ expr.e.v[1].e = ExprSymbol("let")

\* C28: when a let with several (name, value) pairs fails at some pair (the
\* name is not a Symbol, the name is reserved, or the evaluation of the
\* value returns an error), the env is exactly as it was before the let; no
\* binding of an earlier pair of the same let remains.
LetAllOrNothing ==
    (result # NoResult /\ result.tag = "Err" /\ LetOfPairs) => env = env0

(***************************************************************************)
(* Claims on indexing.                                                      *)
(***************************************************************************)
\* The expression evaluated applies an Array or a Dict.
IndexingEvaluated ==
    /\ result # NoResult
    /\ expr.e.k = "List"
    /\ expr.e.v # <<>>
    /\ expr.e.v[1].e.k \in {"Array", "Dict"}

\* C29: the application of an Array value or of a Dict value to an empty
\* argument list, as in (a), returns a value or a ranged error; the
\* evaluator never reads an element of the argument list that does not
\* exist.
IndexingNeverAborts ==
    IndexingEvaluated =>
        \/ result.tag = "Ok"
        \/ result.tag = "Err" /\ "range" \in DOMAIN result.err

(***************************************************************************)
(* Claims on annotations that no expression follows.                        *)
(***************************************************************************)
RECURSIVE Carries(_, _)

\* x or one of the terms in it has an annotation under key.
Carries(x, key) ==
    \/ key \in DOMAIN x.ann
    \/ x.e.k = "List" /\ \E i \in 1..Len(x.e.v) : Carries(x.e.v[i], key)

AnnotationTokens == {i \in 1..Len(lexed.tokens) : lexed.tokens[i].t = "Annotation"}

\* The only annotation token.
SoleAnnotation == CHOOSE i \in AnnotationTokens : TRUE

\* The tokens hold one annotation, well formed and directly followed by a
\* closing delimiter or a comment.
AnnotationOfNothing ==
    /\ LexedOk
    /\ Cardinality(AnnotationTokens) = 1
    /\ SoleAnnotation < Len(lexed.tokens)
    /\ \/ IsClosing(lexed.tokens[SoleAnnotation + 1])
       \/ lexed.tokens[SoleAnnotation + 1].t = "Comment"
    /\ WellFormed(lexed.tokens[SoleAnnotation])

\* C30: an annotation attaches only to the expression that directly follows
\* it: when an annotation token is followed by a closing delimiter or a
\* comment rather than by an expression, it is attached neither to the
\* enclosing list nor to any later expression, and no annotation from
\* inside a list is left in the buffer once the list is closed.
OnlyNextExpression ==
    (ParsedOk /\ AnnotationOfNothing) =>
        \A j \in 1..Len(parsed.exprs) :
            ~Carries(parsed.exprs[j], KeyOf(lexed.tokens[SoleAnnotation]))

====
